---- MODULE Spec2Model ----
(***************************************************************************)
(* finance-buddy: statement import pipeline.                               *)
(*                                                                         *)
(* Text is a sequence of one-character strings, so that the regex-driven   *)
(* parser, the identity generator and the categorizer work on characters   *)
(* as the TypeScript does.  A nullable string column holds NullStr; a      *)
(* nullable id column holds NoCat.                                         *)
(*                                                                         *)
(* Several state machines share the module, each over its own variables:   *)
(*   SpecLedger    the transactions table and its writers                  *)
(*   SpecCat       categorizeTransaction, one tier per step                *)
(*   SpecParse     the line parser over statement text                     *)
(*   SpecValidate  validateExtraction over transaction lists and balances  *)
(*   SpecPage      extractPageTextInReadingOrder over the items of a page  *)
(*   SpecPipeline  the upload page: upload, prepareImport, review, import  *)
(*   SpecUpload    uploadFile over the files of a request                  *)
(*   SpecIntake    parseStatement, then importTransactions on its result   *)
(*   SpecLlm       suggestCategoriesWithLlm over outcomes of the service   *)
(***************************************************************************)
EXTENDS Integers, Sequences, FiniteSets, TLC

VARIABLES
    ledger,      \* the transactions table: a set of rows
    nextId,      \* rows' ids: crypto.randomUUID() as a fresh counter
    clock,       \* unixepoch()
    opLog,       \* the write requests served so far, in order
    lastResult,  \* what the last request returned
    fullText,    \* parseStatement: the text of the document being parsed
    currentYear, \* parseStatement: new Date().getFullYear()
    parseResult, \* parseStatement: what it returned
    docPc,       \* parseStatement: "idle" or "parsed"
    validation,  \* validateExtraction: the calls made, with what they returned
    pageContent, \* extractPageTextInReadingOrder: content.items as handed in
    pageItems,   \* extractPageTextInReadingOrder: items, filtered and sorted
    pageText,    \* extractPageTextInReadingOrder: what it returned
    catTx,       \* categorizeTransaction: the argument tx
    catRules,    \* categorizeTransaction: the argument rules
    catHist,     \* categorizeTransaction: the argument historicalData
    catSorted,   \* categorizeTransaction: sortedRules
    catI,        \* categorizeTransaction: the rule the loop is at
    catSimilar,  \* categorizeTransaction: similar
    catPc,       \* categorizeTransaction: "idle", "rules", "similar", "manual", "done"
    catResult,   \* categorizeTransaction: the results it has returned
    categories,        \* the categories table: the ids of its rows
    categoryRules,     \* the category_rules table: its rows, oldest first
    pipePc,            \* the upload page: where the pipeline stands
    uploads,           \* the upload page: handleUpload calls so far
    uiAccountId,       \* the upload page: accountId
    parsedTransactions,\* handleUpload: data.transactions of uploadFile
    preparedList,      \* the upload page: preparedList
    categoryOverrides, \* the upload page: categoryOverrides, by txKey
    ruleMap,           \* the upload page: ruleMap, assignment, saveRuleForRule
    ruleIdsToCreate,   \* handleImport: the rule ids its loop has yet to visit
    formData, \* uploadFile: the request's form entries, by key
    files, \* uploadFile: files, as getFiles returned them
    fileI, \* uploadFile: the file its parsing loop is at
    uploadPc, \* uploadFile: "idle", "parsing", "returned" or "thrown"
    uploadData, \* uploadFile: bank, allTransactions and allNeedsReview so far
    uploadError, \* uploadFile: the message of the error it threw
    llmInput, \* suggestCategoriesWithLlm: input, and whether OPENAI_API_KEY is set
    llmResponse, \* suggestCategoriesWithLlm: what the service call came to
    llmResult, \* suggestCategoriesWithLlm: the calls returned, with what they returned
    seedPc, \* where each caller of seedCategoriesIfEmpty stands
    seedCalls, \* calls of seedCategoriesIfEmpty begun
    created, \* categories made by createCategory
    deletes, \* calls of deleteCategory
    delResult, \* the id and the outcome of the last deleteCategory
    stream, \* convertOpenAIStreamToAGUI: the chunks of its input stream
    streamI, \* convertOpenAIStreamToAGUI: chunks taken from the stream
    streamPending, \* convertOpenAIStreamToAGUI: events of the chunk at hand still to yield
    streamOut, \* convertOpenAIStreamToAGUI: the events yielded
    streamPc \* convertOpenAIStreamToAGUI: idle, running, done

ledgerVars == <<ledger, nextId, clock, opLog, lastResult>>

statementVars == <<fullText, currentYear, parseResult, docPc>>

pageVars == <<pageContent, pageItems, pageText>>

parseVars == <<statementVars, validation, pageVars>>

catVars == <<catTx, catRules, catHist, catSorted, catI, catSimilar, catPc, catResult>>

storeVars == <<categories, categoryRules>>

uiVars == <<pipePc, uploads, uiAccountId, parsedTransactions, preparedList,
            categoryOverrides, ruleMap, ruleIdsToCreate>>

pipeVars == <<storeVars, uiVars>>

uploadVars == <<formData, files, fileI, uploadPc, uploadData, uploadError>>

llmVars == <<llmInput, llmResponse, llmResult>>

settingsVars == <<seedPc, seedCalls, created, deletes, delResult>>

streamVars == <<stream, streamI, streamPending, streamOut, streamPc>>

vars == <<ledger, nextId, clock, opLog, lastResult,
          fullText, currentYear, parseResult, docPc, validation,
          pageContent, pageItems, pageText,
          catTx, catRules, catHist, catSorted, catI, catSimilar, catPc, catResult,
          categories, categoryRules, pipePc, uploads, uiAccountId,
          parsedTransactions, preparedList, categoryOverrides, ruleMap,
          ruleIdsToCreate,
          formData, files, fileI, uploadPc, uploadData, uploadError,
          llmInput, llmResponse, llmResult,
          seedPc, seedCalls, created, deletes, delResult,
          stream, streamI, streamPending, streamOut, streamPc>>

(***************************************************************************)
(* Strings                                                                 *)
(***************************************************************************)
NullStr == <<"NULL">>

NoCat == "null"

Digits == <<"0", "1", "2", "3", "4", "5", "6", "7", "8", "9">>

IsDigit(c) == \E i \in 1..10 : Digits[i] = c

DigitVal(c) == (CHOOSE i \in 1..10 : Digits[i] = c) - 1

\* Number -> decimal string, as a template literal `${n}` prints it.
RECURSIVE NatToStr(_)
NatToStr(n) == IF n < 10 THEN <<Digits[n + 1]>>
               ELSE NatToStr(n \div 10) \o <<Digits[(n % 10) + 1]>>

IntToStr(n) == IF n < 0 THEN <<"-">> \o NatToStr(-n) ELSE NatToStr(n)

IsSpace(c) == c \in {" ", "\n", "\t"}

\* String.prototype.trim
RECURSIVE TrimLeft(_)
TrimLeft(s) == IF s # <<>> /\ IsSpace(Head(s)) THEN TrimLeft(Tail(s)) ELSE s

RECURSIVE TrimRight(_)
TrimRight(s) == IF s # <<>> /\ IsSpace(s[Len(s)])
                THEN TrimRight(SubSeq(s, 1, Len(s) - 1)) ELSE s

Trim(s) == TrimRight(TrimLeft(s))

\* s.startsWith(pat) from position p (1-based)
StartsWithAt(s, pat, p) ==
    /\ p + Len(pat) - 1 <= Len(s)
    /\ \A k \in 1..Len(pat) : s[p + k - 1] = pat[k]

\* s.includes(pat): the search from p on
RECURSIVE IncludesFrom(_, _, _)
IncludesFrom(s, pat, p) ==
    IF p + Len(pat) - 1 > Len(s) THEN FALSE
    ELSE IF StartsWithAt(s, pat, p) THEN TRUE
    ELSE IncludesFrom(s, pat, p + 1)

Includes(s, pat) == IncludesFrom(s, pat, 1)

(***************************************************************************)
(* Identity generator                                                      *)
(***************************************************************************)
\* sha256(input).hex.slice(0, 24): a digest, taken as collision-free, is a
\* tag on its input.
hashTransactionId(input) == <<"#">> \o input

\* `${y}-${mm}-${dd}`; yy is NullStr when the optional group did not match.
normalizeDateFromGroups(mm, dd, yy, thisYear) ==
    LET y == IF yy # NullStr /\ yy # <<>>
             THEN 2000 + 10 * DigitVal(yy[1]) + DigitVal(yy[2])
             ELSE thisYear
    IN  NatToStr(y) \o <<"-">> \o mm \o <<"-">> \o dd

\* match is the RegExpExecArray: groups g1 (mm), g2 (dd), g3 (yy), g4
\* (description), g5 and g6 (amounts).
generateTransactionIdTwoAmount(match, amountCol) ==
    hashTransactionId(match.g1 \o <<"-">> \o match.g2 \o <<"-">> \o amountCol
                      \o <<"-">> \o Trim(match.g4))

generateTransactionIdSingle(match) ==
    hashTransactionId(match.g1 \o <<"-">> \o match.g2 \o <<"-">> \o match.g5
                      \o <<"-">> \o Trim(match.g4))

stableExternalId(tx) ==
    hashTransactionId(tx.date \o <<"-">> \o tx.description \o <<"-">>
                      \o IntToStr(tx.amountCents))

(***************************************************************************)
(* Line parser: the three regular expressions, matched as the regex engine *)
(* matches them (leftmost, greedy \s+ and [\d,]+, lazy description).       *)
(***************************************************************************)
At(t, p) == IF p >= 1 /\ p <= Len(t) THEN t[p] ELSE "EOF"

\* (0[1-9]|1[0-2])
IsMonth(a, b) == \/ a = "0" /\ IsDigit(b) /\ b # "0"
                 \/ a = "1" /\ b \in {"0", "1", "2"}

\* (0[1-9]|[12]\d|3[01])
IsDay(a, b) == \/ a = "0" /\ IsDigit(b) /\ b # "0"
               \/ a \in {"1", "2"} /\ IsDigit(b)
               \/ a = "3" /\ b \in {"0", "1"}

\* (0[1-9]|1[0-2])\/(0[1-9]|[12]\d|3[01]) at p
DateAt(t, p) == /\ IsMonth(At(t, p), At(t, p + 1))
                /\ At(t, p + 2) = "/"
                /\ IsDay(At(t, p + 3), At(t, p + 4))

\* (?:\/(\d{2}))? at p: the group is taken whenever it can be, and when it
\* was taken the alternative without it fails at once (\s+ meets the "/").
YearAt(t, p) == At(t, p) = "/" /\ IsDigit(At(t, p + 1)) /\ IsDigit(At(t, p + 2))

\* The position after the longest run of \s starting at p.
RECURSIVE SkipSpace(_, _)
SkipSpace(t, p) == IF IsSpace(At(t, p)) THEN SkipSpace(t, p + 1) ELSE p

\* The position after the longest run of [\d,] starting at p.
RECURSIVE SkipDigits(_, _)
SkipDigits(t, p) ==
    IF IsDigit(At(t, p)) \/ At(t, p) = "," THEN SkipDigits(t, p + 1) ELSE p

\* [\d,]+\.\d{2} from s, where the run of [\d,] ends before e: the position
\* after the token, or 0.  [\d,]+ gives nothing back: a shorter run is
\* followed by a digit or a comma, never by the dot.
AmountEndOfRun(t, s, e) ==
    IF e > s /\ At(t, e) = "." /\ IsDigit(At(t, e + 1)) /\ IsDigit(At(t, e + 2))
    THEN e + 3 ELSE 0

AmountEndFrom(t, s) == AmountEndOfRun(t, s, SkipDigits(t, s))

\* [\d,]+\.\d{2} at p (with minus: -?[\d,]+\.\d{2})
AmountEnd(t, p, minus) ==
    AmountEndFrom(t, IF minus /\ At(t, p) = "-" THEN p + 1 ELSE p)

\* (?=\s*\n|\s*$|\s+\D) at p, under the m flag, the run of \s from p ending
\* before e
LookaheadOfRun(t, p, e) ==
    \/ \E j \in p..Len(t) : t[j] = "\n" /\ j <= e
    \/ e = Len(t) + 1
    \/ \E j \in (p + 1)..Len(t) : j <= e /\ ~IsDigit(t[j])

Lookahead(t, p) == LookaheadOfRun(t, p, SkipSpace(t, p))

NoMatch == [ok |-> FALSE]

\* The second amount column, from s2 to before e2.
TailTwoAmounts(t, s1, e1, s2, e2) ==
    IF s2 > e1 /\ e2 # 0
    THEN [ok |-> TRUE, g5 |-> SubSeq(t, s1, e1 - 1),
          g6 |-> SubSeq(t, s2, e2 - 1), end |-> e2]
    ELSE NoMatch

TailSecondAmount(t, s1, e1, s2) ==
    TailTwoAmounts(t, s1, e1, s2, AmountEnd(t, s2, FALSE))

\* The first amount, from s1 to before e1, and what the pattern wants after
\* it.
TailFirstAmount(t, s1, e1, kind) ==
    IF e1 = 0 THEN NoMatch
    ELSE IF kind = "two" THEN TailSecondAmount(t, s1, e1, SkipSpace(t, e1))
    ELSE IF kind = "single" /\ ~Lookahead(t, e1) THEN NoMatch
    ELSE [ok |-> TRUE, g5 |-> SubSeq(t, s1, e1 - 1), g6 |-> NullStr, end |-> e1]

TailFrom(t, s1, kind) ==
    TailFirstAmount(t, s1, AmountEnd(t, s1, kind = "single"), kind)

\* \s+(amount)\s+(amount) | \s+(amount)(?=...) | \s+(amount), from the
\* position e right after the description.
TailAt(t, e, kind) ==
    IF ~IsSpace(At(t, e)) THEN NoMatch ELSE TailFrom(t, SkipSpace(t, e), kind)

\* The least position of a set, or 0.
FirstOf(positions) ==
    IF positions = {} THEN 0
    ELSE CHOOSE e \in positions : \A f \in positions : e <= f

\* The description ([\s\S]+? or, for Capital One, .+?) starting at d0: the
\* shortest one the rest of the pattern accepts ends before DescEnd, or 0.
DescEnd(t, d0, kind) ==
    FirstOf({e \in (d0 + 1)..Len(t) :
                /\ TailAt(t, e, kind).ok
                /\ kind = "cap" => \A k \in d0..(e - 1) : t[k] # "\n"})

MatchWithTail(t, w, e, tail) ==
    [ok |-> TRUE, g4 |-> SubSeq(t, w, e - 1), g5 |-> tail.g5, g6 |-> tail.g6,
     end |-> tail.end]

\* The leading \s+ gives back one character at a time: w is the position
\* after it, from the longest run down, and e the end of the description
\* from w.
RECURSIVE MatchFromSpace(_, _, _, _)
MatchWithDesc(t, q, w, kind, e) ==
    IF e # 0 THEN MatchWithTail(t, w, e, TailAt(t, e, kind))
    ELSE MatchFromSpace(t, q, w - 1, kind)

MatchFromSpace(t, q, w, kind) ==
    IF w <= q THEN NoMatch ELSE MatchWithDesc(t, q, w, kind, DescEnd(t, w, kind))

MatchGroups(t, p, hasYear, m) ==
    IF ~m.ok THEN NoMatch
    ELSE [ok |-> TRUE, index |-> p,
          g1 |-> SubSeq(t, p, p + 1), g2 |-> SubSeq(t, p + 3, p + 4),
          g3 |-> IF hasYear THEN SubSeq(t, p + 6, p + 7) ELSE NullStr,
          g4 |-> m.g4, g5 |-> m.g5, g6 |-> m.g6, end |-> m.end]

MatchAfterDate(t, p, hasYear, q, kind) ==
    MatchGroups(t, p, hasYear, MatchFromSpace(t, q, SkipSpace(t, q), kind))

\* One attempt of the whole pattern at position p.
MatchAt(t, p, kind) ==
    IF ~DateAt(t, p) THEN NoMatch
    ELSE MatchAfterDate(t, p, YearAt(t, p + 5),
                        IF YearAt(t, p + 5) THEN p + 8 ELSE p + 5, kind)

\* RegExp.prototype.exec with the g flag, called until it returns null: the
\* matches in order, each search starting where the last match ended.
RECURSIVE ExecAll(_, _, _)
ExecThen(t, m, kind) == <<m>> \o ExecAll(t, m.end, kind)

ExecFirst(t, p, kind) ==
    IF p = 0 THEN <<>> ELSE ExecThen(t, MatchAt(t, p, kind), kind)

ExecAll(t, from, kind) ==
    ExecFirst(t, FirstOf({p \in from..Len(t) : MatchAt(t, p, kind).ok}), kind)

\* s.replace(/,/g, "")
RECURSIVE StripCommas(_)
StripCommas(s) == IF s = <<>> THEN <<>>
                  ELSE IF Head(s) = "," THEN StripCommas(Tail(s))
                  ELSE <<Head(s)>> \o StripCommas(Tail(s))

\* The digits of s read as one number (the dot and the sign skipped).
RECURSIVE DigitsValue(_, _)
DigitsValue(s, acc) ==
    IF s = <<>> THEN acc
    ELSE IF IsDigit(Head(s)) THEN DigitsValue(Tail(s), 10 * acc + DigitVal(Head(s)))
    ELSE DigitsValue(Tail(s), acc)

\* Math.round(parseFloat(s) * 100) for s = -?\d*\.\d{2}
AmountCents(s) == IF s # <<>> /\ Head(s) = "-" THEN -DigitsValue(s, 0)
                  ELSE DigitsValue(s, 0)

\* s.replace(/\s+/g, " ")
RECURSIVE CollapseSpace(_)
CollapseSpace(s) ==
    IF s = <<>> THEN <<>>
    ELSE IF IsSpace(Head(s)) THEN <<" ">> \o CollapseSpace(TrimLeft(s))
    ELSE <<Head(s)>> \o CollapseSpace(Tail(s))

Abs(n) == IF n < 0 THEN -n ELSE n

TwoAmountPush(match, thisYear, col1Str, col2Str, col1Cents, col2Cents) ==
    LET isDeposit == col1Cents # 0
        amountCents == IF isDeposit THEN col1Cents ELSE col2Cents
        amountStr == IF isDeposit THEN col1Str ELSE col2Str
    IN  IF amountCents # 0
        THEN <<[date |-> normalizeDateFromGroups(match.g1, match.g2, match.g3,
                                                 thisYear),
                description |-> Trim(CollapseSpace(match.g4)),
                amountCents |-> amountCents,
                externalId |-> generateTransactionIdTwoAmount(match, amountStr),
                type |-> IF isDeposit THEN "credit" ELSE "debit"]>>
        ELSE <<>>

\* The columns read the other way round.
TwoAmountSwapped(match, thisYear, col1Str, col2Str) ==
    TwoAmountPush(match, thisYear, col2Str, col1Str,
                  AmountCents(col2Str), AmountCents(col1Str))

TwoAmountColumns(match, thisYear, col1Str, col2Str) ==
    TwoAmountPush(match, thisYear, col1Str, col2Str,
                  AmountCents(col1Str), AmountCents(col2Str))

\* One iteration of the two-column loop: the transaction pushed, if any.
TwoAmountTransaction(match, thisYear) ==
    TwoAmountColumns(match, thisYear, StripCommas(match.g5), StripCommas(match.g6))

RECURSIVE TwoAmountPass(_, _)
TwoAmountPass(matches, thisYear) ==
    IF matches = <<>> THEN <<>>
    ELSE TwoAmountTransaction(Head(matches), thisYear)
         \o TwoAmountPass(Tail(matches), thisYear)

\* `${t.date}:${t.description}:${t.amountCents}`
SeenKey(date, description, amountCents) ==
    date \o <<":">> \o description \o <<":">> \o IntToStr(amountCents)

\* The single-amount loop, over the matches left, with the transactions and
\* the seen set so far.
RECURSIVE SingleAmountPass(_, _, _, _)
\* The step that keeps the amount with its sign.
SingleAmountSigned(matches, transactions, seen, thisYear, amountStr, amountCents, desc, date) ==
    IF SeenKey(date, desc, Abs(amountCents)) \notin seen
    THEN SingleAmountPass(Tail(matches),
             Append(transactions,
                    [date |-> date, description |-> desc,
                     amountCents |-> amountCents,
                     externalId |-> generateTransactionIdSingle(Head(matches)),
                     type |-> IF Head(amountStr) = "-" THEN "debit" ELSE "credit"]),
             seen \cup {SeenKey(date, desc, Abs(amountCents))}, thisYear)
    ELSE SingleAmountPass(Tail(matches), transactions, seen, thisYear)

SingleAmountStep(matches, transactions, seen, thisYear, amountStr, amountCents, desc, date) ==
    IF SeenKey(date, desc, Abs(amountCents)) \notin seen
    THEN SingleAmountPass(Tail(matches),
             Append(transactions,
                    [date |-> date, description |-> desc,
                     amountCents |-> Abs(amountCents),
                     externalId |-> generateTransactionIdSingle(Head(matches)),
                     type |-> IF Head(amountStr) = "-" THEN "debit" ELSE "credit"]),
             seen \cup {SeenKey(date, desc, Abs(amountCents))}, thisYear)
    ELSE SingleAmountPass(Tail(matches), transactions, seen, thisYear)

SingleAmountMatch(matches, transactions, seen, thisYear, amountStr) ==
    SingleAmountStep(matches, transactions, seen, thisYear, amountStr,
                     AmountCents(amountStr),
                     Trim(CollapseSpace(Head(matches).g4)),
                     normalizeDateFromGroups(Head(matches).g1, Head(matches).g2,
                                             Head(matches).g3, thisYear))

SingleAmountPass(matches, transactions, seen, thisYear) ==
    IF matches = <<>> THEN transactions
    ELSE SingleAmountMatch(matches, transactions, seen, thisYear,
                           StripCommas(Head(matches).g5))

\* The second loop of parseBoATransactions, after the first has pushed
\* transactions.
SingleAfterTwo(text, thisYear, transactions) ==
    SingleAmountPass(ExecAll(text, 1, "single"), transactions,
                     {SeenKey(transactions[i].date, transactions[i].description,
                              transactions[i].amountCents) :
                         i \in DOMAIN transactions},
                     thisYear)

parseBoATransactions(text, thisYear) ==
    SingleAfterTwo(text, thisYear, TwoAmountPass(ExecAll(text, 1, "two"), thisYear))

CapitalOneTransaction(match, thisYear) ==
    [date |-> normalizeDateFromGroups(match.g1, match.g2, match.g3, thisYear),
     description |-> Trim(match.g4),
     amountCents |-> AmountCents(StripCommas(match.g5)),
     externalId |-> generateTransactionIdSingle(match),
     type |-> "debit"]

RECURSIVE CapitalOnePass(_, _)
CapitalOnePass(matches, thisYear) ==
    IF matches = <<>> THEN <<>>
    ELSE <<CapitalOneTransaction(Head(matches), thisYear)>>
         \o CapitalOnePass(Tail(matches), thisYear)

parseCapitalOneTransactions(text, thisYear) ==
    CapitalOnePass(ExecAll(text, 1, "cap"), thisYear)

(***************************************************************************)
(* parseStatement, from the extracted text on                              *)
(***************************************************************************)
S_BankOfAmerica ==
    <<"B","a","n","k"," ","o","f"," ","A","m","e","r","i","c","a">>

S_CapitalOne == <<"C","a","p","i","t","a","l"," ","O","n","e">>

S_Statement == <<"S","t","a","t","e","m","e","n","t">>

\* The search with the second marker looked for first.
detectBankReversed(text) ==
    IF Includes(text, S_CapitalOne) THEN "capital_one"
    ELSE IF Includes(text, S_BankOfAmerica) THEN "bofa"
    ELSE "unknown"

detectBank(text) ==
    IF Includes(text, S_BankOfAmerica) THEN "bofa"
    ELSE IF Includes(text, S_CapitalOne) THEN "capital_one"
    ELSE "unknown"

\* transactions.filter((t) => !t.externalId)
RECURSIVE NeedsReview(_)
NeedsReview(txs) ==
    IF txs = <<>> THEN <<>>
    ELSE IF Head(txs).externalId = NullStr \/ Head(txs).externalId = <<>>
    THEN <<Head(txs)>> \o NeedsReview(Tail(txs))
    ELSE NeedsReview(Tail(txs))

StatementResult(bank, transactions) ==
    [bank |-> bank, transactions |-> transactions,
     needsReview |-> NeedsReview(transactions)]

StatementOfBank(text, year, bank) ==
    StatementResult(bank,
        IF bank = "bofa" THEN parseBoATransactions(text, year)
        ELSE IF bank = "capital_one" THEN parseCapitalOneTransactions(text, year)
        ELSE <<>>)

parseStatement(text, year) == StatementOfBank(text, year, detectBank(text))

\* The pieces of statement lines: dates, descriptions and amount columns;
\* and first lines that name both institutions, or one in other letters.
StatementText ==
    [Date |-> <<"0","3","/","1","4">>,
     Coffee |-> <<"C","O","F","F","E","E"," ","S","H","O","P">>,
     CoffeeWide |-> <<"C","O","F","F","E","E"," "," ","S","H","O","P">>,
     Payroll |-> <<"P","A","Y","R","O","L","L">>,
     Date25 |-> <<"0","3","/","1","4","/","2","5">>,
     Date26 |-> <<"0","3","/","1","4","/","2","6">>,
     Debit450 |-> <<"0",".","0","0"," ","4",".","5","0">>,
     Credit450 |-> <<"4",".","5","0"," ","0",".","0","0">>,
     Credit1000 |-> <<"1","0","0","0",".","0","0"," ","0",".","0","0">>,
     Credit1000Comma |-> <<"1",",","0","0","0",".","0","0"," ","0",".","0","0">>,
     Zero |-> <<"0",".","0","0"," ","0",".","0","0">>,
     Minus450 |-> <<"-","4",".","5","0">>,
     Plain450 |-> <<"4",".","5","0">>,
     Plain1000 |-> <<"1","0","0","0",".","0","0">>,
     Plain1000Comma |-> <<"1",",","0","0","0",".","0","0">>,
     BothMarkers |->
        <<"C","a","p","i","t","a","l"," ","O","n","e"," ","/"," ",
          "B","a","n","k"," ","o","f"," ","A","m","e","r","i","c","a">>,
     LowerMarker |-> <<"b","a","n","k"," ","o","f"," ","a","m","e","r","i","c","a">>]

\* One statement line, from the names of its pieces in StatementText.
Line(date, description, amounts) ==
    StatementText[date] \o <<" ">> \o StatementText[description]
        \o <<" ">> \o StatementText[amounts]

\* The lines statements are made of: two-column and single-amount lines, with
\* and without a year, with one or two blanks inside the description, with
\* and without a thousands separator.
StatementLines ==
    {Line("Date", "Coffee", "Debit450"), Line("Date25", "Coffee", "Debit450"),
     Line("Date26", "Coffee", "Debit450"), Line("Date", "CoffeeWide", "Debit450"),
     Line("Date", "Coffee", "Credit450"), Line("Date", "Coffee", "Zero"),
     Line("Date", "Payroll", "Credit1000"), Line("Date", "Payroll", "Credit1000Comma"),
     Line("Date", "Coffee", "Minus450"), Line("Date", "Coffee", "Plain450"),
     Line("Date", "CoffeeWide", "Minus450"), Line("Date25", "Coffee", "Minus450"),
     Line("Date", "Payroll", "Plain1000"), Line("Date", "Payroll", "Plain1000Comma")}

MaxLines == 2

RECURSIVE JoinLines(_)
JoinLines(lines) ==
    IF lines = <<>> THEN <<>>
    ELSE IF Len(lines) = 1 THEN lines[1]
    ELSE lines[1] \o <<"\n">> \o JoinLines(Tail(lines))

ParseInit ==
    /\ fullText = <<>>
    /\ currentYear = 2025
    /\ parseResult = [bank |-> "unknown", transactions |-> <<>>, needsReview |-> <<>>]
    /\ docPc = "idle"
    /\ validation = <<>>
    /\ pageContent = <<>>
    /\ pageItems = <<>>
    /\ pageText = NullStr

ParseStatement ==
    /\ docPc = "idle"
    /\ \E header \in {S_BankOfAmerica, S_CapitalOne, S_Statement,
                       StatementText.BothMarkers, StatementText.LowerMarker},
          n \in 1..MaxLines, year \in {2025, 2026} :
         \E lines \in [1..n -> StatementLines] :
            /\ fullText' = header \o <<"\n">> \o JoinLines(lines)
            /\ currentYear' = year
            /\ parseResult' = parseStatement(fullText', year)
    /\ docPc' = "parsed"
    /\ UNCHANGED <<validation, pageVars, ledgerVars, catVars, pipeVars, uploadVars,
                   llmVars, settingsVars, streamVars>>

NextParse == ParseStatement

(***************************************************************************)
(* Categorizer: matchesPattern, findSimilarTransactions and                *)
(* categorizeTransaction                                                   *)
(***************************************************************************)
Uppercase ==
    <<"A","B","C","D","E","F","G","H","I","J","K","L","M",
      "N","O","P","Q","R","S","T","U","V","W","X","Y","Z">>

Lowercase ==
    <<"a","b","c","d","e","f","g","h","i","j","k","l","m",
      "n","o","p","q","r","s","t","u","v","w","x","y","z">>

LowerChar(c) ==
    IF \E i \in DOMAIN Uppercase : Uppercase[i] = c
    THEN Lowercase[CHOOSE i \in DOMAIN Uppercase : Uppercase[i] = c]
    ELSE c

\* Body at the value of e: e is evaluated once, as an argument is on a call
\* or the right-hand side of a const declaration.
Bind(e, Body(_)) == CHOOSE r \in {Body(x) : x \in {e}} : TRUE

\* String.prototype.toLowerCase
RECURSIVE toLowerCase(_)
toLowerCase(s) ==
    IF s = <<>> THEN <<>> ELSE <<LowerChar(Head(s))>> \o toLowerCase(Tail(s))

\* s.split(/\s+/), the word in progress starting at w and the scan at p: a
\* string that starts or ends with white space gives an empty first or last
\* word.
RECURSIVE SplitFrom(_, _, _)
SplitFrom(s, w, p) ==
    IF p > Len(s) THEN <<SubSeq(s, w, Len(s))>>
    ELSE IF IsSpace(s[p])
         THEN Bind(SkipSpace(s, p),
                   LAMBDA q : <<SubSeq(s, w, p - 1)>> \o SplitFrom(s, q, q))
         ELSE SplitFrom(s, w, p + 1)

SplitSpace(s) == SplitFrom(s, 1, 1)

\* Array.prototype.sort((a, b) => b.key - a.key) over [key, item] pairs: the
\* sort is stable, so each pair goes behind the pairs of its key or a greater
\* one that came before it.
RECURSIVE InsertByKey(_, _)
InsertByKey(sorted, e) ==
    IF sorted = <<>> THEN <<e>>
    ELSE IF Head(sorted).key >= e.key
         THEN <<Head(sorted)>> \o InsertByKey(Tail(sorted), e)
         ELSE <<e>> \o sorted

RECURSIVE SortDescending(_)
SortDescending(pairs) ==
    IF pairs = <<>> THEN <<>>
    ELSE Bind(SortDescending(SubSeq(pairs, 1, Len(pairs) - 1)),
              LAMBDA sorted : InsertByKey(sorted, pairs[Len(pairs)]))

\* Array.prototype.filter, by the set of positions kept
RECURSIVE FilterSeq(_, _, _)
FilterSeq(seq, kept, i) ==
    IF i > Len(seq) THEN <<>>
    ELSE IF i \in kept THEN <<seq[i]>> \o FilterSeq(seq, kept, i + 1)
    ELSE FilterSeq(seq, kept, i + 1)

\* No slice at all.
SliceNone(seq, limit) == seq

\* Array.prototype.slice(0, limit)
SliceTo(seq, limit) == SubSeq(seq, 1, IF Len(seq) < limit THEN Len(seq) ELSE limit)

\* .map((s) => s.tx)
RECURSIVE Items(_)
Items(pairs) ==
    IF pairs = <<>> THEN <<>> ELSE <<Head(pairs).item>> \o Items(Tail(pairs))

matchesPattern(field, pattern, matchType) ==
    IF field = NullStr THEN FALSE
    ELSE IF matchType = "exact" THEN toLowerCase(field) = toLowerCase(pattern)
    ELSE IF matchType = "starts_with"
         THEN Bind(toLowerCase(field),
                   LAMBDA lower : Bind(toLowerCase(pattern),
                       LAMBDA pat : StartsWithAt(lower, pat, 1)))
    ELSE Bind(toLowerCase(field),
              LAMBDA lower : Bind(toLowerCase(pattern),
                  LAMBDA pat : Includes(lower, pat)))

\* The score the map callback gives a historical name: one for each word of
\* the new name, longer than two characters, that the historical name
\* includes.
SimilarityScoreOf(words, tLower) ==
    Cardinality({k \in 1..Len(words) :
                    Len(words[k]) > 2 /\ Includes(tLower, words[k])})

SimilarityScore(nameLower, tLower) ==
    Bind(SplitSpace(nameLower),
         LAMBDA words : Bind(tLower, LAMBDA lower : SimilarityScoreOf(words, lower)))

\* .map((t) => ({ tx: t, score })), from entry i on
RECURSIVE ScoredFrom(_, _, _)
ScoredFrom(nameLower, others, i) ==
    IF i > Len(others) THEN <<>>
    ELSE <<[key |-> SimilarityScore(nameLower, toLowerCase(others[i].name)),
            item |-> others[i]]>>
         \o ScoredFrom(nameLower, others, i + 1)

\* .filter((s) => s.score > 0)
PositiveOf(scored) ==
    Bind({i \in 1..Len(scored) : scored[i].key > 0},
         LAMBDA kept : FilterSeq(scored, kept, 1))

\* .filter((t) => t.name.toLowerCase() !== nameLower)
OthersOf(nameLower, historical) ==
    Bind({i \in 1..Len(historical) : toLowerCase(historical[i].name) # nameLower},
         LAMBDA kept : FilterSeq(historical, kept, 1))

SimilarTo(nameLower, historical, limit) ==
    Bind(OthersOf(nameLower, historical), LAMBDA others :
    Bind(ScoredFrom(nameLower, others, 1), LAMBDA scored :
    Bind(PositiveOf(scored), LAMBDA positive :
    Bind(SortDescending(positive), LAMBDA sorted :
    Bind(SliceTo(sorted, limit), LAMBDA kept : Items(kept))))))

findSimilarTransactions(name, historical, limit) ==
    Bind(toLowerCase(name), LAMBDA nameLower : SimilarTo(nameLower, historical, limit))

\* The votes of categoryVotes as [key, item] pairs (count, categoryId) in the
\* order the categories were first met, which is the order Object.entries
\* lists them in.
RECURSIVE VoteFor(_, _)
VoteFor(votes, categoryId) ==
    IF votes = <<>> THEN <<[key |-> 1, item |-> categoryId]>>
    ELSE IF Head(votes).item = categoryId
         THEN <<[key |-> Head(votes).key + 1, item |-> categoryId]>> \o Tail(votes)
         ELSE <<Head(votes)>> \o VoteFor(Tail(votes), categoryId)

\* if (t.categoryId): null and the empty string do not vote
Truthy(categoryId) == categoryId # NoCat /\ categoryId # ""

RECURSIVE categoryVotes(_, _)
categoryVotes(similar, votes) ==
    IF similar = <<>> THEN votes
    ELSE Bind(IF Truthy(Head(similar).categoryId)
              THEN VoteFor(votes, Head(similar).categoryId)
              ELSE votes,
              LAMBDA voted : categoryVotes(Tail(similar), voted))

SimilarLimit == 10

MinSimilar == 3

MinVotes == 2

RuleConfidence == 100

ConfidenceBase == 60

ConfidencePerVote == 10

ConfidenceCap == 95

ManualConfidence == 0

\* The confidence of the similarity tier without its cap.
UncappedConfidence(count) == ConfidenceBase + count * ConfidencePerVote

\* Confidence in hundredths: Math.min(0.95, 0.6 + count * 0.1)
SimilarityConfidence(count) ==
    IF ConfidenceBase + count * ConfidencePerVote < ConfidenceCap
    THEN ConfidenceBase + count * ConfidencePerVote
    ELSE ConfidenceCap

RuleResult(rule) ==
    [categoryId |-> rule.categoryId, confidence |-> RuleConfidence,
     source |-> "rule", explanation |-> <<"Matched rule", rule.matchPattern>>]

SimilarResult(topCategory, count) ==
    [categoryId |-> topCategory, confidence |-> SimilarityConfidence(count),
     source |-> "ml",
     explanation |-> <<"Similar to", count, SimilarityConfidence(count)>>]

ManualResult ==
    [categoryId |-> NoCat, confidence |-> ManualConfidence, source |-> "manual",
     explanation |-> <<"No matching rule or similar transactions found">>]

NoCommit == [commit |-> FALSE]

\* const [topCategory, count] = entries[0] ?? []
TopVote(entries) ==
    IF entries # <<>> /\ Truthy(entries[1].item) /\ entries[1].key >= MinVotes
    THEN [commit |-> TRUE, result |-> SimilarResult(entries[1].item, entries[1].key)]
    ELSE NoCommit

\* The vote taken without asking for three candidates first.
SimilarityVoteOfAny(similar) ==
    Bind(categoryVotes(similar, <<>>), LAMBDA votes :
    Bind(SortDescending(votes), LAMBDA entries : TopVote(entries)))

SimilarityVote(similar) ==
    IF Len(similar) >= MinSimilar
    THEN Bind(categoryVotes(similar, <<>>), LAMBDA votes :
         Bind(SortDescending(votes), LAMBDA entries : TopVote(entries)))
    ELSE NoCommit

\* rules.filter((r) => r.isEnabled).sort((a, b) => b.priority - a.priority)
RECURSIVE PriorityPairs(_)
PriorityPairs(rules) ==
    IF rules = <<>> THEN <<>>
    ELSE <<[key |-> Head(rules).priority, item |-> Head(rules)]>>
         \o PriorityPairs(Tail(rules))

\* rules.filter((r) => r.isEnabled)
enabledRules(rules) ==
    FilterSeq(rules, {i \in 1..Len(rules) : rules[i].isEnabled}, 1)

\* The enabled rules left in declaration order.
unsortedRules(rules) == enabledRules(rules)

\* rules.filter((r) => r.isEnabled).sort((a, b) => b.priority - a.priority)
sortedRules(rules) ==
    Bind(enabledRules(rules), LAMBDA enabled :
    Bind(PriorityPairs(enabled), LAMBDA pairs :
    Bind(SortDescending(pairs), LAMBDA sorted : Items(sorted))))

RuleMatches(rule, tx) ==
    matchesPattern(IF rule.matchField = "merchant_name" THEN tx.merchantName
                   ELSE tx.name,
                   rule.matchPattern, rule.matchType)

\* A loop that does not advance.
SameRule(i) == i

\* for (const rule of sortedRules): the next iteration
NextRule(i) == i + 1

\* A rule loop that records the match and goes on to the next tier instead
\* of returning.
AfterRuleNoReturn(i, sorted, tx) ==
    IF i > Len(sorted) \/ RuleMatches(sorted[i], tx) THEN "similar" ELSE "rules"

\* Where the rule loop goes from rule i: on to the next rule, out with that
\* rule's result, or past the last rule to the similarity tier.
AfterRule(i, sorted, tx) ==
    IF i > Len(sorted) THEN "similar"
    ELSE IF RuleMatches(sorted[i], tx) THEN "done"
    ELSE "rules"

\* Descriptions and merchant names of new and of historical transactions.
Names ==
    [Starbucks789 |->
        <<"S","T","A","R","B","U","C","K","S"," ","#","7","8","9">>,
     CarWash |-> <<"C","A","R"," ","W","A","S","H">>,
     CarCarWash |-> <<" ","C","A","R"," ","C","A","R"," ","W","A","S","H">>,
     Shell |-> <<"S","h","e","l","l">>,
     Starbucks123 |->
        <<"S","T","A","R","B","U","C","K","S"," ","#","1","2","3">>,
     Starbucks456 |->
        <<"S","T","A","R","B","U","C","K","S"," ","#","4","5","6">>,
     StarbucksDowntown |->
        <<"S","T","A","R","B","U","C","K","S"," ","D","O","W","N","T","O","W","N">>,
     starbucks789 |->
        <<"s","t","a","r","b","u","c","k","s"," ","#","7","8","9">>,
     StarbucksBeans |->
        <<"S","t","a","r","b","u","c","k","s"," ","B","e","a","n","s">>,
     StarbucksKiosk |->
        <<"S","T","A","R","B","U","C","K","S"," ","K","I","O","S","K">>,
     CarpetStore |-> <<"C","A","R","P","E","T"," ","S","T","O","R","E">>,
     WashMyCar |-> <<"W","A","S","H"," ","M","Y"," ","C","A","R">>,
     Rent |-> <<"R","E","N","T">>]

\* Rule patterns, as a user types them.
Patterns ==
    [starbucks |-> <<"s","t","a","r","b","u","c","k","s">>,
     STAR |-> <<"S","T","A","R">>,
     carwash |-> <<"c","a","r"," ","w","a","s","h">>,
     wash |-> <<"w","a","s","h">>,
     shell |-> <<"s","h","e","l","l">>,
     Hash789 |-> <<"#","7","8","9">>]

CatTransactions ==
    {[name |-> Names.Starbucks789, merchantName |-> NullStr, amountCents |-> -550],
     [name |-> Names.CarWash, merchantName |-> Names.Shell, amountCents |-> -1200],
     [name |-> Names.CarCarWash, merchantName |-> NullStr, amountCents |-> -1200]}

Rule(id, categoryId, matchField, matchPattern, matchType, isEnabled, priority) ==
    [id |-> id, categoryId |-> categoryId, matchField |-> matchField,
     matchPattern |-> matchPattern, matchType |-> matchType,
     isEnabled |-> isEnabled, priority |-> priority]

RulePool ==
    {Rule("r1", "restaurants", "name", Patterns.starbucks, "contains", TRUE, 5),
     Rule("r2", "entertainment", "name", Patterns.STAR, "starts_with", TRUE, 5),
     Rule("r3", "transportation", "name", Patterns.carwash, "exact", TRUE, 10),
     Rule("r4", "utilities", "name", Patterns.wash, "starts_with", TRUE, 7),
     Rule("r5", "travel", "merchant_name", Patterns.shell, "contains", TRUE, 1),
     Rule("r6", "groceries", "name", Patterns.Hash789, "contains", FALSE, 10)}

HistoryRow(name, categoryId) ==
    [id |-> "t", name |-> name, merchantName |-> NullStr, amountCents |-> -100,
     categoryId |-> categoryId]

HistoryPool ==
    {HistoryRow(Names.Starbucks123, "restaurants"),
     HistoryRow(Names.Starbucks456, "restaurants"),
     HistoryRow(Names.StarbucksDowntown, "restaurants"),
     HistoryRow(Names.starbucks789, "groceries"),
     HistoryRow(Names.StarbucksBeans, "groceries"),
     HistoryRow(Names.StarbucksKiosk, NoCat),
     HistoryRow(Names.CarpetStore, "shopping"),
     HistoryRow(Names.CarWash, "transportation"),
     HistoryRow(Names.WashMyCar, "transportation"),
     HistoryRow(Names.Rent, "rent")}

MaxRules == 3

MaxHistory == 2

MaxRepeat == 10

SeqsUpTo(pool, n) == UNION {[1..k -> pool] : k \in 0..n}

RECURSIVE Repeat(_, _)
Repeat(row, n) == IF n = 0 THEN <<>> ELSE <<row>> \o Repeat(row, n - 1)

\* Histories that vote against the rules of the pool, or not at all.
ContraryHistories ==
    {<<>>,
     Repeat(HistoryRow(Names.StarbucksBeans, "groceries"), MinSimilar),
     Repeat(HistoryRow(Names.WashMyCar, "shopping"), MinSimilar)}

\* Histories long enough for the limit of findSimilarTransactions to cut: one
\* row many times over, then two more.
LongPool ==
    {HistoryRow(Names.Starbucks123, "restaurants"),
     HistoryRow(Names.StarbucksBeans, "groceries"),
     HistoryRow(Names.StarbucksKiosk, NoCat),
     HistoryRow(Names.CarpetStore, "shopping"),
     HistoryRow(Names.WashMyCar, "transportation")}

LongHistories ==
    {Repeat(a, n) \o <<b, c>> :
        a \in LongPool, b \in LongPool,
        c \in {HistoryRow(Names.StarbucksKiosk, NoCat),
               HistoryRow(Names.WashMyCar, "transportation")},
        n \in (SimilarLimit - 2)..MaxRepeat}

\* Histories of just as many entries as the vote asks for.
VotePool ==
    {HistoryRow(Names.Starbucks123, "restaurants"),
     HistoryRow(Names.Starbucks456, "restaurants"),
     HistoryRow(Names.StarbucksDowntown, "restaurants"),
     HistoryRow(Names.StarbucksBeans, "groceries"),
     HistoryRow(Names.StarbucksKiosk, NoCat)}

CatInputs ==
    [tx : CatTransactions, rules : SeqsUpTo(RulePool, MaxRules),
     historicalData : ContraryHistories]
    \cup [tx : CatTransactions, rules : {<<>>},
          historicalData : SeqsUpTo(HistoryPool, MaxHistory) \cup [1..MinSimilar -> VotePool]
                               \cup LongHistories]

CatInit ==
    /\ catTx = [name |-> <<>>, merchantName |-> NullStr, amountCents |-> 0]
    /\ catRules = <<>>
    /\ catHist = <<>>
    /\ catSorted = <<>>
    /\ catI = 0
    /\ catSimilar = <<>>
    /\ catPc = "idle"
    /\ catResult = <<>>

\* The call, up to the rule loop.
CatCall ==
    /\ catPc = "idle"
    /\ \E input \in CatInputs :
          /\ catTx' = input.tx
          /\ catRules' = input.rules
          /\ catHist' = input.historicalData
          /\ catSorted' = sortedRules(input.rules)
    /\ catI' = 1
    /\ catSimilar' = <<>>
    /\ catPc' = "rules"
    /\ catResult' = <<>>
    /\ UNCHANGED <<ledgerVars, parseVars, pipeVars, uploadVars, llmVars, settingsVars,
                   streamVars>>

\* One iteration of the rule loop, or its end.
CatRuleStep ==
    /\ catPc = "rules"
    /\ catPc' = AfterRule(catI, catSorted, catTx)
    /\ IF catI > Len(catSorted) THEN UNCHANGED <<catI, catResult>>
       ELSE IF RuleMatches(catSorted[catI], catTx)
       THEN /\ catResult' = Append(catResult, RuleResult(catSorted[catI]))
            /\ UNCHANGED catI
       ELSE /\ catI' = NextRule(catI)
            /\ UNCHANGED catResult
    /\ UNCHANGED <<catTx, catRules, catHist, catSorted, catSimilar,
                   ledgerVars, parseVars, pipeVars, uploadVars, llmVars, settingsVars,
                   streamVars>>

\* The similarity tier: the candidates and their vote.
CatSimilarStep ==
    /\ catPc = "similar"
    /\ \E similar \in {findSimilarTransactions(catTx.name, catHist, SimilarLimit)} :
          \E vote \in {SimilarityVote(similar)} :
              /\ catSimilar' = similar
              /\ IF vote.commit
                 THEN /\ catResult' = Append(catResult, vote.result)
                      /\ catPc' = "done"
                 ELSE /\ catPc' = "manual"
                      /\ UNCHANGED catResult
    /\ UNCHANGED <<catTx, catRules, catHist, catSorted, catI, ledgerVars, parseVars,
                   pipeVars, uploadVars, llmVars, settingsVars, streamVars>>

\* The last return.
CatManualStep ==
    /\ catPc = "manual"
    /\ catResult' = Append(catResult, ManualResult)
    /\ catPc' = "done"
    /\ UNCHANGED <<catTx, catRules, catHist, catSorted, catI, catSimilar,
                   ledgerVars, parseVars, pipeVars, uploadVars, llmVars, settingsVars,
                   streamVars>>

\* The caller has the result; the next call starts afresh.
CatReturn ==
    /\ catPc = "done"
    /\ catTx' = [name |-> <<>>, merchantName |-> NullStr, amountCents |-> 0]
    /\ catRules' = <<>>
    /\ catHist' = <<>>
    /\ catSorted' = <<>>
    /\ catI' = 0
    /\ catSimilar' = <<>>
    /\ catPc' = "idle"
    /\ catResult' = <<>>
    /\ UNCHANGED <<ledgerVars, parseVars, pipeVars, uploadVars, llmVars, settingsVars,
                   streamVars>>

NextCat == CatCall \/ CatRuleStep \/ CatSimilarStep \/ CatManualStep \/ CatReturn

(***************************************************************************)
(* Ledger store: the transactions table, importTransactions and            *)
(* createTransaction                                                       *)
(***************************************************************************)
MaxOps == 3

MaxClock == 2

Accounts == {"acct1", "acct2"}

\* Statement text (format A) as the text extractor hands it to the parser,
\* and the strings of manual entries.  MidMarch overlaps March on the 03/15
\* line; Year runs from mid March to the next March: it overlaps both on the
\* 03/15 line and pays the same rent on the same day of the next year.
LedgerText ==
    [March |->
        <<"0","3","/","1","4","/","2","5"," ","R","E","N","T"," ","0",".","0","0"," ",
          "1",",","0","0","0",".","0","0","\n",
          "0","3","/","1","5","/","2","5"," ","C","O","F","F","E","E"," ","0",".","0","0",
          " ","4",".","5","0">>,
     MidMarch |->
        <<"0","3","/","1","5","/","2","5"," ","C","O","F","F","E","E"," ","0",".","0","0",
          " ","4",".","5","0","\n",
          "0","3","/","1","6","/","2","5"," ","P","A","Y"," ","2",",","0","0","0",".","0","0",
          " ","0",".","0","0">>,
     Year |->
        <<"0","3","/","1","5","/","2","5"," ","C","O","F","F","E","E"," ","0",".","0","0",
          " ","4",".","5","0","\n",
          "0","3","/","1","4","/","2","6"," ","R","E","N","T"," ","0",".","0","0"," ",
          "1",",","0","0","0",".","0","0">>,
     COFFEE |-> <<"C","O","F","F","E","E">>,
     CAFE |-> <<"C","a","f","e">>,
     CASH |-> <<"C","A","S","H">>,
     Mar15 |-> <<"2","0","2","5","-","0","3","-","1","5">>,
     Apr01 |-> <<"2","0","2","5","-","0","4","-","0","1">>]

\* prepareImport's result as the review screen sends it on: each parsed
\* transaction with a category and the tier that chose it.
PreparedAs(txs, categoryId, source) ==
    [i \in DOMAIN txs |->
        [date |-> txs[i].date, description |-> txs[i].description,
         amountCents |-> txs[i].amountCents, externalId |-> txs[i].externalId,
         type |-> txs[i].type, categoryId |-> categoryId, source |-> source]]

ParsedStatements ==
    {parseBoATransactions(LedgerText.March, 2026),
     parseBoATransactions(LedgerText.MidMarch, 2026),
     parseBoATransactions(LedgerText.Year, 2026)}

\* A transaction whose identity the client left absent.
UnidentifiedBatch ==
    <<[date |-> LedgerText.Mar15, description |-> LedgerText.COFFEE, amountCents |-> 450,
       externalId |-> NullStr, type |-> "debit", categoryId |-> NoCat,
       source |-> "manual"]>>

ImportBatches ==
    {PreparedAs(txs, NoCat, "manual") : txs \in ParsedStatements}
    \cup {PreparedAs(parseBoATransactions(LedgerText.March, 2026), "shopping", "rule")}
    \cup {UnidentifiedBatch}

\* What createTransaction is called with.
CreateInputs ==
    {[amountCents |-> -2000, date |-> LedgerText.Apr01, name |-> LedgerText.CASH,
      merchantName |-> NullStr, categoryId |-> NoCat, externalId |-> NullStr],
     [amountCents |-> -450, date |-> LedgerText.Apr01, name |-> LedgerText.CAFE,
      merchantName |-> LedgerText.CAFE, categoryId |-> "restaurants",
      externalId |-> parseBoATransactions(LedgerText.MidMarch, 2026)[1].externalId]}

\* A row that takes the identity as the client sent it.
ImportRowAsSent(accountId, tx, id) ==
    [id |-> id, accountId |-> accountId, externalId |-> tx.externalId,
     amountCents |-> IF tx.type = "credit" THEN tx.amountCents ELSE -tx.amountCents,
     date |-> tx.date, name |-> tx.description, merchantName |-> NullStr,
     categoryId |-> tx.categoryId, autoCategorized |-> tx.source # "manual"]

\* importTransactions: the row built from one PreparedTransaction
ImportRow(accountId, tx, id) ==
    [id |-> id,
     accountId |-> accountId,
     externalId |-> IF tx.externalId # NullStr THEN tx.externalId
                    ELSE stableExternalId(tx),
     amountCents |-> IF tx.type = "credit" THEN tx.amountCents ELSE -tx.amountCents,
     date |-> tx.date,
     name |-> tx.description,
     merchantName |-> NullStr,
     categoryId |-> tx.categoryId,
     autoCategorized |-> tx.source # "manual"]

ImportRows(accountId, txs, firstId) ==
    [i \in DOMAIN txs |-> ImportRow(accountId, txs[i], firstId + i - 1)]

\* The unique index transactions_dedup: the rows of the table that conflict
\* with (accountId, externalId).  A NULL external_id conflicts with nothing.
Conflicting(table, accountId, externalId) ==
    {r \in table : /\ externalId # NullStr
                   /\ r.accountId = accountId
                   /\ r.externalId = externalId}

\* A row as INSERT stores it: the columns not given take their defaults.
Stored(row, now) ==
    [id |-> row.id, accountId |-> row.accountId, externalId |-> row.externalId,
     amountCents |-> row.amountCents, date |-> row.date, name |-> row.name,
     merchantName |-> row.merchantName, categoryId |-> row.categoryId,
     autoCategorized |-> row.autoCategorized, isPending |-> FALSE,
     metadata |-> "null", updatedAt |-> now]

\* An upsert written as REPLACE: the incoming row takes the place of the old.
ConflictReplace(old, row, now) == Stored(row, now)

\* ON CONFLICT (account_id, external_id) DO UPDATE SET ...
ConflictUpdate(old, row, now) ==
    [old EXCEPT !.amountCents = row.amountCents,
                !.merchantName = row.merchantName,
                !.categoryId = row.categoryId,
                !.autoCategorized = row.autoCategorized,
                !.updatedAt = now]

\* An import without the conflict clause on a table without the unique index.
InsertRow(table, row, now) == table \cup {Stored(row, now)}

\* INSERT ... ON CONFLICT DO UPDATE for one row of VALUES
UpsertRow(table, row, now) ==
    LET hit == Conflicting(table, row.accountId, row.externalId)
    IN  IF hit = {} THEN table \cup {Stored(row, now)}
        ELSE (table \ hit) \cup {ConflictUpdate(old, row, now) : old \in hit}

\* The statement takes the rows of VALUES one after the other.
RECURSIVE UpsertRows(_, _, _)
UpsertRows(table, rows, now) ==
    IF rows = <<>> THEN table
    ELSE UpsertRows(UpsertRow(table, Head(rows), now), Tail(rows), now)

LedgerInit ==
    /\ ledger = {}
    /\ nextId = 1
    /\ clock = 0
    /\ opLog = <<>>
    /\ lastResult = [kind |-> "none"]

Later == {now \in {clock, clock + 1} : now <= MaxClock}

\* The table after importTransactions' one INSERT statement.
ImportedLedger(table, accountId, txs, firstId, now) ==
    UpsertRows(table, ImportRows(accountId, txs, firstId), now)

importTransactions(accountId, txs, now) ==
    /\ Len(opLog) < MaxOps
    /\ ledger' = ImportedLedger(ledger, accountId, txs, nextId, now)
    /\ nextId' = nextId + Len(txs)
    /\ clock' = now
    /\ opLog' = Append(opLog, [op |-> "import", accountId |-> accountId,
                               transactions |-> txs, firstId |-> nextId,
                               now |-> now])
    /\ lastResult' = [kind |-> "imported", imported |-> Len(txs)]
    /\ UNCHANGED <<parseVars, catVars, pipeVars, uploadVars, llmVars, settingsVars,
                   streamVars>>

CreateRow(accountId, data, id) ==
    [id |-> id, accountId |-> accountId, externalId |-> data.externalId,
     amountCents |-> data.amountCents, date |-> data.date, name |-> data.name,
     merchantName |-> data.merchantName, categoryId |-> data.categoryId,
     autoCategorized |-> FALSE]

\* A plain INSERT: the unique index refuses a second row of a key.
CreateFails(table, accountId, data) ==
    Conflicting(table, accountId, data.externalId) # {}

CreatedLedger(table, accountId, data, id, now) ==
    IF CreateFails(table, accountId, data) THEN table
    ELSE table \cup {Stored(CreateRow(accountId, data, id), now)}

createTransaction(accountId, data, now) ==
    /\ Len(opLog) < MaxOps
    /\ ledger' = CreatedLedger(ledger, accountId, data, nextId, now)
    /\ lastResult' = IF CreateFails(ledger, accountId, data)
                     THEN [kind |-> "error"]
                     ELSE [kind |-> "created", id |-> nextId]
    /\ nextId' = nextId + 1
    /\ clock' = now
    /\ opLog' = Append(opLog, [op |-> "create", accountId |-> accountId,
                               data |-> data, firstId |-> nextId, now |-> now])
    /\ UNCHANGED <<parseVars, catVars, pipeVars, uploadVars, llmVars, settingsVars,
                   streamVars>>

ImportTransactions ==
    \E accountId \in Accounts, txs \in ImportBatches, now \in Later :
        importTransactions(accountId, txs, now)

CreateTransaction ==
    \E accountId \in Accounts, data \in CreateInputs, now \in Later :
        createTransaction(accountId, data, now)

NextLedger == ImportTransactions \/ CreateTransaction

(***************************************************************************)
(* Reconciliation: validateExtraction                                      *)
(***************************************************************************)
ValidTolerance == 100

\* transactions.reduce((sum, tx) => sum + (credit ? amount : -amount), start)
RECURSIVE calculatedEnd(_, _)
calculatedEnd(transactions, sum) ==
    IF transactions = <<>> THEN sum
    ELSE calculatedEnd(Tail(transactions),
                       sum + (IF Head(transactions).type = "credit"
                              THEN Head(transactions).amountCents
                              ELSE -Head(transactions).amountCents))

\* The report with the tolerance itself counted as valid.
validateInclusive(transactions, startBalanceCents, endBalanceCents) ==
    [valid |-> Abs(calculatedEnd(transactions, startBalanceCents)
                       - endBalanceCents) <= ValidTolerance,
     calculatedEnd |-> calculatedEnd(transactions, startBalanceCents),
     difference |-> calculatedEnd(transactions, startBalanceCents) - endBalanceCents]

\* The report with the difference taken the other way round.
validateReversed(transactions, startBalanceCents, endBalanceCents) ==
    [valid |-> Abs(calculatedEnd(transactions, startBalanceCents)
                       - endBalanceCents) < ValidTolerance,
     calculatedEnd |-> calculatedEnd(transactions, startBalanceCents),
     difference |-> endBalanceCents - calculatedEnd(transactions, startBalanceCents)]

validateExtraction(transactions, startBalanceCents, endBalanceCents) ==
    [valid |-> Abs(calculatedEnd(transactions, startBalanceCents)
                       - endBalanceCents) < ValidTolerance,
     calculatedEnd |-> calculatedEnd(transactions, startBalanceCents),
     difference |-> calculatedEnd(transactions, startBalanceCents) - endBalanceCents]

MaxListed == 2

\* What validateExtraction is called with: lists of up to MaxListed
\* transactions around the tolerance and around the 65.00 of the spec's
\* example, and stated balances.
ValidateInputs ==
    [transactions : SeqsUpTo([type : {"credit", "debit"},
                              amountCents : {1, 99, 100, 6500}], MaxListed),
     startBalanceCents : {0, 6500},
     endBalanceCents : {0, 100, 6500}]

ValidateExtraction ==
    /\ validation = <<>>
    /\ \E args \in ValidateInputs :
          validation' = <<[transactions |-> args.transactions,
                           startBalanceCents |-> args.startBalanceCents,
                           endBalanceCents |-> args.endBalanceCents,
                           result |-> validateExtraction(args.transactions,
                                                         args.startBalanceCents,
                                                         args.endBalanceCents)]>>
    /\ UNCHANGED <<statementVars, pageVars, ledgerVars, catVars, pipeVars, uploadVars,
                   llmVars, settingsVars, streamVars>>

NextValidate == ValidateExtraction

(***************************************************************************)
(* Text extraction: extractPageTextInReadingOrder                          *)
(*                                                                         *)
(* A text item is [str, transform, hasEOL] with transform the six numbers  *)
(* of its matrix, the last two being x and y; an item that is not text     *)
(* (marked content) has no str.                                            *)
(***************************************************************************)
Y_THRESHOLD == 5

\* item.transform[k] ?? 0, k counted from 0
Coordinate(item, k) ==
    IF k + 1 <= Len(item.transform) THEN item.transform[k + 1] ELSE 0

\* The comparator with the threshold itself counted as another line.
sortCompareStrict(a, b) ==
    IF Abs(Coordinate(a, 5) - Coordinate(b, 5)) >= Y_THRESHOLD
    THEN Coordinate(b, 5) - Coordinate(a, 5)
    ELSE Coordinate(a, 4) - Coordinate(b, 4)

\* The comparator handed to items.sort
sortCompare(a, b) ==
    IF Abs(Coordinate(a, 5) - Coordinate(b, 5)) > Y_THRESHOLD
    THEN Coordinate(b, 5) - Coordinate(a, 5)
    ELSE Coordinate(a, 4) - Coordinate(b, 4)

\* Array.prototype.sort asks for a consistent comparator: one under which
\* the elements fall into classes of equals that are totally ordered.
ConsistentCompare(items) ==
    \A i \in DOMAIN items, j \in DOMAIN items :
        /\ sortCompare(items[i], items[j]) < 0 <=> sortCompare(items[j], items[i]) > 0
        /\ \A k \in DOMAIN items :
              /\ (sortCompare(items[i], items[j]) <= 0
                     /\ sortCompare(items[j], items[k]) <= 0)
                    => sortCompare(items[i], items[k]) <= 0
              /\ (sortCompare(items[i], items[j]) < 0
                     /\ sortCompare(items[j], items[k]) <= 0)
                    => sortCompare(items[i], items[k]) < 0
              /\ (sortCompare(items[i], items[j]) <= 0
                     /\ sortCompare(items[j], items[k]) < 0)
                    => sortCompare(items[i], items[k]) < 0

\* The orders items.sort may leave the items in, as permutations of their
\* positions: with a consistent comparator the one stable sorted order,
\* otherwise whatever order the engine arrives at.
SortOrders(items) ==
    {p \in [DOMAIN items -> DOMAIN items] :
        /\ \A i \in DOMAIN items, j \in DOMAIN items : p[i] = p[j] => i = j
        /\ ConsistentCompare(items) =>
              \A i \in DOMAIN items, j \in DOMAIN items :
                  i < j => \/ sortCompare(items[p[i]], items[p[j]]) < 0
                           \/ /\ sortCompare(items[p[i]], items[p[j]]) = 0
                              /\ p[i] < p[j]}

\* content.items.filter(...): the items that are text
TextItems(items) ==
    FilterSeq(items, {i \in DOMAIN items : items[i].str # NullStr}, 1)

\* The loop that joins the items, from item i on.
RECURSIVE JoinItems(_, _)
JoinItems(items, i) ==
    IF i > Len(items) THEN <<>>
    ELSE IF i < Len(items)
         THEN items[i].str \o (IF items[i].hasEOL THEN <<"\n">> ELSE <<" ">>)
                  \o JoinItems(items, i + 1)
         ELSE items[i].str

MaxFragments == 3

\* The items pages are made of: fragments on lines 2, 3 and 5 units apart,
\* at two horizontal positions, some ending a line, one with no transform
\* values, and one item that is not text.
PageItemPool ==
    [transform : {<<1, 0, 0, 1, 10, 100>>, <<1, 0, 0, 1, 50, 102>>,
                  <<1, 0, 0, 1, 50, 105>>, <<1, 0, 0, 1, 10, 108>>},
     hasEOL : {FALSE}]
    \cup {[transform |-> <<1, 0, 0, 1, 50, 100>>, hasEOL |-> TRUE],
          [transform |-> <<>>, hasEOL |-> FALSE]}

\* A page: up to MaxFragments items, the text items lettered in the order
\* they come in, possibly an item that is not text among them.
PageContents ==
    {[i \in DOMAIN page |->
         [str |-> IF i = skip THEN NullStr ELSE <<Uppercase[i]>>,
          transform |-> page[i].transform, hasEOL |-> page[i].hasEOL]] :
        page \in SeqsUpTo(PageItemPool, MaxFragments), skip \in {0, 2}}

ExtractPage ==
    /\ pageText = NullStr
    /\ \E content \in PageContents :
          \E p \in SortOrders(TextItems(content)) :
              /\ pageContent' = content
              /\ pageItems' = [i \in DOMAIN p |-> TextItems(content)[p[i]]]
              /\ pageText' = JoinItems(pageItems', 1)
    /\ UNCHANGED <<statementVars, validation, ledgerVars, catVars, pipeVars, uploadVars,
                   llmVars, settingsVars, streamVars>>

NextPage == ExtractPage

(***************************************************************************)
(* The upload page: uploadFile, prepareImport, the review screen and       *)
(* handleImport, over the categories, category_rules and transactions      *)
(* tables.                                                                 *)
(***************************************************************************)
DEFAULT_CATEGORIES ==
    {"salary", "rent", "utilities", "groceries", "shopping", "restaurants",
     "internet", "phone", "transportation", "entertainment", "miscellaneous",
     "subscriptions", "travel", "transfer"}

\* The categories table after seedCategoriesIfEmpty.
seedCategoriesIfEmpty(table) ==
    IF table = {} THEN DEFAULT_CATEGORIES
    ELSE IF "transfer" \notin table THEN table \cup {"transfer"}
    ELSE table

\* categorizeTransaction as one call: the rule loop from rule i on, then the
\* similarity tier, then manual.
RECURSIVE categorizeTransaction(_, _, _, _)
categorizeTransaction(tx, sorted, historicalData, i) ==
    IF AfterRule(i, sorted, tx) = "rules"
    THEN categorizeTransaction(tx, sorted, historicalData, NextRule(i))
    ELSE IF AfterRule(i, sorted, tx) = "done" THEN RuleResult(sorted[i])
    ELSE Bind(SimilarityVote(findSimilarTransactions(tx.name, historicalData, SimilarLimit)),
              LAMBDA vote : IF vote.commit THEN vote.result ELSE ManualResult)

\* prepareImport: one PreparedTransaction.
PreparedTransaction(tx, cat) ==
    [date |-> tx.date, description |-> tx.description,
     amountCents |-> tx.amountCents, externalId |-> tx.externalId,
     type |-> tx.type, categoryId |-> cat.categoryId,
     confidence |-> cat.confidence, source |-> cat.source,
     explanation |-> cat.explanation]

\* prepareImport: the list it returns for the rules and the history read.
prepareImport(parsed, rules, historical) ==
    [i \in DOMAIN parsed |->
        PreparedTransaction(parsed[i],
            categorizeTransaction(
                [name |-> parsed[i].description, merchantName |-> NullStr,
                 amountCents |-> IF parsed[i].type = "credit"
                                 THEN parsed[i].amountCents
                                 ELSE -parsed[i].amountCents],
                sortedRules(rules), historical, 1))]

\* db.select().from(transactions): the rows in an order the query does not
\* fix.
TableOrders(table) ==
    {rows \in [1..Cardinality(table) -> table] :
        \A i \in DOMAIN rows, j \in DOMAIN rows : rows[i] = rows[j] => i = j}

\* txKey
txKey(tx) ==
    tx.date \o <<"-">> \o tx.description \o <<"-">> \o IntToStr(tx.amountCents)

\* assignment[key]: the place in ruleMap of the rule made for key, 0 for none.
assignment(map, key) ==
    IF \E rid \in DOMAIN map : map[rid].key = key
    THEN CHOOSE rid \in DOMAIN map : map[rid].key = key
    ELSE 0

\* tx.description.slice(0, 40)
Slice40(s) == SubSeq(s, 1, IF Len(s) < 40 THEN Len(s) ELSE 40)

\* The entry the "Create rule" button makes for a row.
initialRule(tx, overrides) ==
    [key |-> txKey(tx),
     categoryId |-> IF txKey(tx) \in DOMAIN overrides THEN overrides[txKey(tx)]
                    ELSE IF tx.categoryId # NoCat THEN tx.categoryId ELSE "",
     matchPattern |-> Slice40(tx.description),
     matchType |-> "contains",
     save |-> FALSE]

\* handleImport: Object.keys(ruleMap).filter(saveRuleForRule[ruleId] === true)
SavedRuleIds(map) == FilterSeq([rid \in DOMAIN map |-> rid], {rid \in DOMAIN map : map[rid].save}, 1)

\* handleImport: the entries its loop passes over.
SkipsRule(entry) == entry.categoryId = "" \/ Trim(entry.matchPattern) = <<>>

\* createCategoryRule: the row it inserts.
CategoryRuleRow(table, entry) ==
    [id |-> Len(table) + 1, categoryId |-> entry.categoryId,
     matchPattern |-> toLowerCase(Trim(entry.matchPattern)),
     matchField |-> "name", matchType |-> entry.matchType,
     priority |-> 0, isEnabled |-> TRUE]

\* handleImport: effectiveCategory || null
effectiveCategory(tx, overrides, map) ==
    Bind(IF txKey(tx) \in DOMAIN overrides THEN overrides[txKey(tx)]
         ELSE IF assignment(map, txKey(tx)) # 0
         THEN map[assignment(map, txKey(tx))].categoryId
         ELSE tx.categoryId,
         LAMBDA c : IF c = "" THEN NoCat ELSE c)

\* handleImport: merged
merged(list, overrides, map) ==
    [i \in DOMAIN list |->
        [list[i] EXCEPT !.categoryId = effectiveCategory(list[i], overrides, map)]]

MaxUploads == 2

MaxReviewed == 1

\* The statements the operator uploads, as uploadFile parses them.
UploadedStatements ==
    {parseStatement(S_BankOfAmerica \o <<"\n">> \o JoinLines(lines), 2026).transactions :
        lines \in {<<Line("Date", "Coffee", "Minus450")>>,
                   <<Line("Date", "Payroll", "Plain1000")>>,
                   <<Line("Date", "Coffee", "Minus450"), Line("Date", "Payroll", "Plain1000")>>,
                   <<Line("Date", "Coffee", "Debit450")>>}}

\* What the operator picks in a row's category select.
SelectValues == {"", "restaurants"}

PipeInit ==
    /\ categories = {}
    /\ categoryRules = <<>>
    /\ pipePc = "idle"
    /\ uploads = 0
    /\ uiAccountId = "acct1"
    /\ parsedTransactions = <<>>
    /\ preparedList = <<>>
    /\ categoryOverrides = <<>>
    /\ ruleMap = <<>>
    /\ ruleIdsToCreate = <<>>

\* getCategories, as the settings pages and the review screen call it.
GetCategories ==
    /\ pipePc \in {"idle", "review"}
    /\ categories' = seedCategoriesIfEmpty(categories)
    /\ UNCHANGED <<categoryRules, uiVars, ledgerVars, parseVars, catVars, uploadVars,
                   llmVars, settingsVars, streamVars>>

\* handleUpload, up to the return of uploadFile.
HandleUpload ==
    /\ pipePc \in {"idle", "review", "imported", "aborted"}
    /\ uploads < MaxUploads
    /\ uploads' = uploads + 1
    /\ \E parsed \in UploadedStatements : parsedTransactions' = parsed
    /\ preparedList' = <<>>
    /\ categoryOverrides' = <<>>
    /\ ruleMap' = <<>>
    /\ pipePc' = "uploaded"
    /\ UNCHANGED <<uiAccountId, ruleIdsToCreate, storeVars, ledgerVars, parseVars,
                   catVars, uploadVars, llmVars, settingsVars, streamVars>>

\* handleUpload from the call of prepareImport on.
PrepareImport ==
    /\ pipePc = "uploaded"
    /\ categories' = seedCategoriesIfEmpty(categories)
    /\ \E historical \in TableOrders(ledger) :
          preparedList' = prepareImport(parsedTransactions, categoryRules, historical)
    /\ pipePc' = "review"
    /\ UNCHANGED <<categoryRules, uploads, uiAccountId, parsedTransactions,
                   categoryOverrides, ruleMap, ruleIdsToCreate,
                   ledgerVars, parseVars, catVars, uploadVars, llmVars, settingsVars,
                   streamVars>>

\* The category select of a row.
SelectCategory ==
    /\ pipePc = "review"
    /\ \E k \in DOMAIN preparedList, v \in SelectValues :
          /\ k <= MaxReviewed
          /\ categoryOverrides' =
                [key \in DOMAIN categoryOverrides \cup {txKey(preparedList[k])} |->
                    IF key = txKey(preparedList[k]) THEN v ELSE categoryOverrides[key]]
    /\ UNCHANGED <<pipePc, uploads, uiAccountId, parsedTransactions, preparedList,
                   ruleMap, ruleIdsToCreate, storeVars, ledgerVars, parseVars, catVars,
                   uploadVars, llmVars, settingsVars, streamVars>>

\* The "Create rule" button of a row that has no rule yet.
CreateRuleClick ==
    /\ pipePc = "review"
    /\ \E k \in DOMAIN preparedList :
          /\ k <= MaxReviewed
          /\ assignment(ruleMap, txKey(preparedList[k])) = 0
          /\ ruleMap' = Append(ruleMap, initialRule(preparedList[k], categoryOverrides))
    /\ UNCHANGED <<pipePc, uploads, uiAccountId, parsedTransactions, preparedList,
                   categoryOverrides, ruleIdsToCreate, storeVars, ledgerVars,
                   parseVars, catVars, uploadVars, llmVars, settingsVars, streamVars>>

\* The rule form, submitted with a category chosen.
SubmitRuleForm ==
    /\ pipePc = "review"
    /\ \E rid \in DOMAIN ruleMap, c \in SelectValues \ {""} :
          ruleMap' = [ruleMap EXCEPT ![rid].categoryId = c,
                                     ![rid].matchPattern = Trim(ruleMap[rid].matchPattern)]
    /\ UNCHANGED <<pipePc, uploads, uiAccountId, parsedTransactions, preparedList,
                   categoryOverrides, ruleIdsToCreate, storeVars, ledgerVars,
                   parseVars, catVars, uploadVars, llmVars, settingsVars, streamVars>>

\* The "Save rule" checkbox.
ToggleSaveRule ==
    /\ pipePc = "review"
    /\ \E rid \in DOMAIN ruleMap :
          ruleMap' = [ruleMap EXCEPT ![rid].save = ~ruleMap[rid].save]
    /\ UNCHANGED <<pipePc, uploads, uiAccountId, parsedTransactions, preparedList,
                   categoryOverrides, ruleIdsToCreate, storeVars, ledgerVars,
                   parseVars, catVars, uploadVars, llmVars, settingsVars, streamVars>>

\* handleImport, up to its loop.
HandleImport ==
    /\ pipePc = "review"
    /\ ruleIdsToCreate' = SavedRuleIds(ruleMap)
    /\ pipePc' = "rules"
    /\ UNCHANGED <<uploads, uiAccountId, parsedTransactions, preparedList,
                   categoryOverrides, ruleMap, storeVars, ledgerVars, parseVars, catVars,
                   uploadVars, llmVars, settingsVars, streamVars>>

\* handleImport: one turn of the loop over ruleIdsToCreate.
CreateCategoryRule ==
    /\ pipePc = "rules"
    /\ ruleIdsToCreate # <<>>
    /\ categoryRules' =
          IF SkipsRule(ruleMap[Head(ruleIdsToCreate)]) THEN categoryRules
          ELSE Append(categoryRules,
                      CategoryRuleRow(categoryRules, ruleMap[Head(ruleIdsToCreate)]))
    /\ ruleIdsToCreate' = Tail(ruleIdsToCreate)
    /\ UNCHANGED <<categories, pipePc, uploads, uiAccountId, parsedTransactions,
                   preparedList, categoryOverrides, ruleMap, ledgerVars, parseVars,
                   catVars, uploadVars, llmVars, settingsVars, streamVars>>

\* handleImport: the call of importTransactions with the merged list.
CallImportTransactions ==
    /\ pipePc = "rules"
    /\ ruleIdsToCreate = <<>>
    /\ \E now \in Later :
          /\ ledger' = ImportedLedger(ledger, uiAccountId,
                                      merged(preparedList, categoryOverrides, ruleMap),
                                      nextId, now)
          /\ clock' = now
          /\ opLog' = Append(opLog, [op |-> "import", accountId |-> uiAccountId,
                                     transactions |-> merged(preparedList, categoryOverrides, ruleMap),
                                     firstId |-> nextId, now |-> now])
    /\ nextId' = nextId + Len(preparedList)
    /\ lastResult' = [kind |-> "imported", imported |-> Len(preparedList)]
    /\ pipePc' = "imported"
    /\ UNCHANGED <<uploads, uiAccountId, parsedTransactions, preparedList,
                   categoryOverrides, ruleMap, ruleIdsToCreate, storeVars,
                   parseVars, catVars, uploadVars, llmVars, settingsVars, streamVars>>

\* The operator gives up: "Change account" on the review screen, or the page
\* left while a request or the loop of handleImport is under way.
Abort ==
    /\ pipePc \in {"uploaded", "review", "rules"}
    /\ pipePc' = "aborted"
    /\ preparedList' = <<>>
    /\ UNCHANGED <<uploads, uiAccountId, parsedTransactions, categoryOverrides,
                   ruleMap, ruleIdsToCreate, storeVars, ledgerVars, parseVars, catVars,
                   uploadVars, llmVars, settingsVars, streamVars>>

NextPipeline ==
    \/ GetCategories
    \/ HandleUpload
    \/ PrepareImport
    \/ SelectCategory
    \/ CreateRuleClick
    \/ SubmitRuleForm
    \/ ToggleSaveRule
    \/ HandleImport
    \/ CreateCategoryRule
    \/ CallImportTransactions
    \/ Abort

(***************************************************************************)
(* uploadFile: the files of the request, checked and then parsed one after *)
(* the other.                                                              *)
(***************************************************************************)
MAX_FILES == 10

\* String.prototype.endsWith
EndsWith(s, suffix) ==
    Len(s) >= Len(suffix) /\ SubSeq(s, Len(s) - Len(suffix) + 1, Len(s)) = suffix

\* f instanceof File && f.size > 0
IsNonEmptyFile(f) == f.isFile /\ f.size > 0

\* getFiles: the entries of a key that are non-empty files, in order.
NonEmptyFiles(entries) ==
    FilterSeq(entries, {i \in DOMAIN entries : IsNonEmptyFile(entries[i])}, 1)

getFiles(form) ==
    IF form.file # <<>> /\ IsNonEmptyFile(form.file[1]) THEN <<form.file[1]>>
    ELSE IF NonEmptyFiles(form.filesList) # <<>> THEN NonEmptyFiles(form.filesList)
    ELSE NonEmptyFiles(form.file)

\* file.type !== "application/pdf" && !file.name.toLowerCase().endsWith(".pdf")
NotPdf(f) ==
    f.type # "application/pdf" /\ ~EndsWith(toLowerCase(f.name), <<".", "p", "d", "f">>)

\* Checks that let a batch of any length through.
RequestErrorNoLimit(list) ==
    IF Len(list) = 0 THEN "Missing file(s)"
    ELSE IF \E i \in DOMAIN list : NotPdf(list[i]) THEN "Only PDF files are supported"
    ELSE "none"

\* The error uploadFile throws before its parsing loop, "none" for none.
RequestError(list) ==
    IF Len(list) = 0 THEN "Missing file(s)"
    ELSE IF Len(list) > MAX_FILES THEN "Maximum 10 PDFs per upload"
    ELSE IF \E i \in DOMAIN list : NotPdf(list[i]) THEN "Only PDF files are supported"
    ELSE "none"

\* A bank tag that the first recognized document fixes for the whole batch.
FirstBank(bank, parsedBank) ==
    IF bank = "unknown" /\ parsedBank # "unknown" THEN parsedBank ELSE bank

\* The batch's bank after one more document.
NextBank(bank, parsedBank) ==
    IF bank = "unknown" /\ parsedBank # "unknown" THEN parsedBank
    ELSE IF bank # "unknown" /\ parsedBank # "unknown" /\ bank # parsedBank THEN "mixed"
    ELSE bank

\* File names and types of the requests.
FileNames ==
    [pdf |-> <<"a", ".", "p", "d", "f">>, PDF |-> <<"A", ".", "P", "D", "F">>,
     txt |-> <<"a", ".", "t", "x", "t">>]

UploadFileOf(type, name, size, readable, text) ==
    [isFile |-> TRUE, type |-> type, name |-> FileNames[name], size |-> size,
     readable |-> readable, text |-> text]

\* The files of the requests: statements of either institution and of none,
\* a document without text, bytes that are no PDF, an empty file, PDFs known
\* by their name only or by their type only, and a text file.
UploadFilePool ==
    {UploadFileOf("application/pdf", "pdf", 1, TRUE,
                  S_BankOfAmerica \o <<"\n">> \o Line("Date", "Coffee", "Minus450")),
     UploadFileOf("application/pdf", "pdf", 1, TRUE,
                  S_CapitalOne \o <<"\n">> \o Line("Date", "Payroll", "Credit1000")),
     UploadFileOf("application/pdf", "pdf", 1, TRUE,
                  S_Statement \o <<"\n">> \o Line("Date", "Coffee", "Minus450")),
     UploadFileOf("application/pdf", "pdf", 1, TRUE, <<>>),
     UploadFileOf("application/pdf", "pdf", 1, FALSE, <<>>),
     UploadFileOf("application/pdf", "pdf", 0, TRUE, <<>>),
     UploadFileOf("", "PDF", 1, TRUE,
                  S_BankOfAmerica \o <<"\n">> \o Line("Date", "Payroll", "Plain1000")),
     UploadFileOf("application/pdf", "txt", 1, TRUE,
                  S_CapitalOne \o <<"\n">> \o Line("Date", "Coffee", "Debit450")),
     UploadFileOf("text/plain", "txt", 1, TRUE, <<>>)}

\* A form value that is no file.
FormString == [isFile |-> FALSE]

MaxBatch == 3

\* The forms posted: a few files under "files[]", one or two entries under
\* "file", and batches of MAX_FILES and of MAX_FILES + 1 copies of one file.
FormDatas ==
    [file : {<<>>}, filesList : SeqsUpTo(UploadFilePool \cup {FormString}, MaxBatch)]
    \cup [file : SeqsUpTo(UploadFilePool \cup {FormString}, 2) \ {<<>>},
          filesList : SeqsUpTo(UploadFilePool, 1)]
    \cup {[file |-> <<>>, filesList |-> Repeat(f, n)] :
             f \in UploadFilePool, n \in {MAX_FILES, MAX_FILES + 1}}

UploadInit ==
    /\ formData = [file |-> <<>>, filesList |-> <<>>]
    /\ files = <<>>
    /\ fileI = 0
    /\ uploadPc = "idle"
    /\ uploadData = [bank |-> "unknown", transactions |-> <<>>, needsReview |-> <<>>]
    /\ uploadError = "none"

\* uploadFile, up to its parsing loop.
UploadFile ==
    /\ uploadPc = "idle"
    /\ \E form \in FormDatas :
          /\ formData' = form
          /\ files' = getFiles(form)
          /\ uploadError' = RequestError(getFiles(form))
          /\ uploadPc' = IF RequestError(getFiles(form)) = "none" THEN "parsing"
                         ELSE "thrown"
    /\ fileI' = 1
    /\ UNCHANGED <<uploadData, ledgerVars, parseVars, catVars, pipeVars, llmVars,
                   settingsVars, streamVars>>

\* One turn of the loop: await parseStatement(buffer) and the bookkeeping.
UploadParse ==
    /\ uploadPc = "parsing"
    /\ fileI <= Len(files)
    /\ IF files[fileI].readable
       THEN /\ \E parsed \in {parseStatement(files[fileI].text, 2026)} :
                 uploadData' =
                    [bank |-> NextBank(uploadData.bank, parsed.bank),
                     transactions |-> uploadData.transactions \o parsed.transactions,
                     needsReview |-> uploadData.needsReview \o parsed.needsReview]
            /\ UNCHANGED <<uploadPc, uploadError>>
       ELSE \* pdfjs rejects bytes that are no PDF document: parseStatement
            \* throws, and nothing catches it
            /\ uploadPc' = "thrown"
            /\ uploadError' = "InvalidPDFException"
            /\ UNCHANGED uploadData
    /\ fileI' = fileI + 1
    /\ UNCHANGED <<formData, files, ledgerVars, parseVars, catVars, pipeVars, llmVars,
                   settingsVars, streamVars>>

\* The loop is over: uploadFile returns bank, transactions and needsReview.
UploadReturn ==
    /\ uploadPc = "parsing"
    /\ fileI > Len(files)
    /\ uploadPc' = "returned"
    /\ UNCHANGED <<formData, files, fileI, uploadData, uploadError,
                   ledgerVars, parseVars, catVars, pipeVars, llmVars, settingsVars,
                   streamVars>>

NextUpload == UploadFile \/ UploadParse \/ UploadReturn

(***************************************************************************)
(* A statement parsed and then imported, its transactions sent on as the   *)
(* parser made them or without their externalId.                           *)
(***************************************************************************)
\* PreparedTransactions whose externalId the client left absent.
WithoutIdentity(txs) == [i \in DOMAIN txs |-> [txs[i] EXCEPT !.externalId = NullStr]]

\* importTransactions on what parseStatement returned; an INSERT needs at
\* least one row of VALUES.
ImportParsed ==
    /\ docPc = "parsed"
    /\ opLog = <<>>
    /\ parseResult.transactions # <<>>
    /\ \E accountId \in Accounts, identified \in BOOLEAN :
          importTransactions(accountId,
                             PreparedAs(IF identified THEN parseResult.transactions
                                        ELSE WithoutIdentity(parseResult.transactions),
                                        NoCat, "manual"),
                             clock + 1)

NextIntake == ParseStatement \/ ImportParsed

(***************************************************************************)
(* suggestCategoriesWithLlm: the suggestions of the service, checked       *)
(* against the category list.                                              *)
(***************************************************************************)
\* SAFE_FALLBACK
SAFE_FALLBACK(n) ==
    [i \in 1..n |-> [categoryId |-> NoCat, suggestedMatchPattern |-> NullStr,
                     likelyRecurring |-> FALSE]]

\* A suggestion passed on as the service gave it.
SuggestionUnchecked(s, validIds) ==
    [categoryId |-> s.categoryId, suggestedMatchPattern |-> s.suggestedMatchPattern,
     likelyRecurring |-> s.likelyRecurring]

\* The callback of parsed.suggestions.map
Suggestion(s, validIds) ==
    [categoryId |-> IF s.categoryId # NoCat /\ s.categoryId \in validIds
                    THEN s.categoryId ELSE NoCat,
     suggestedMatchPattern |->
        IF s.suggestedMatchPattern # NullStr /\ Len(Trim(s.suggestedMatchPattern)) > 0
        THEN Trim(s.suggestedMatchPattern) ELSE NullStr,
     likelyRecurring |-> s.likelyRecurring]

\* What suggestCategoriesWithLlm returns for an input, an environment and an
\* outcome of the service call.
suggestCategoriesWithLlm(input, response) ==
    IF ~input.apiKey \/ Len(input.transactions) = 0
    THEN SAFE_FALLBACK(Len(input.transactions))
    ELSE IF response.kind # "parsed" THEN SAFE_FALLBACK(Len(input.transactions))
    ELSE [i \in DOMAIN response.suggestions |->
             Suggestion(response.suggestions[i],
                        {input.categoryList[k].id : k \in DOMAIN input.categoryList})]

MaxSuggested == 2

\* The inputs: with and without an API key, up to MaxSuggested uncategorized
\* transactions, and a category list that is empty, short or has transfer.
LlmInputs ==
    [apiKey : BOOLEAN,
     transactions : SeqsUpTo({[description |-> Names.Starbucks789, amountCents |-> -550],
                              [description |-> Names.CarWash, amountCents |-> -1200]},
                             MaxSuggested),
     categoryList : {<<>>, <<[id |-> "groceries", name |-> "Groceries"]>>,
                     <<[id |-> "groceries", name |-> "Groceries"],
                       [id |-> "transfer", name |-> "Transfer"]>>}]

\* What the service suggests: ids of the list, ids of no list, no id;
\* patterns that are absent, blank or padded.
ServiceSuggestions ==
    {[categoryId |-> "groceries", suggestedMatchPattern |-> <<" ", "S", "T", "A", "R", " ">>,
      likelyRecurring |-> TRUE],
     [categoryId |-> "transfer", suggestedMatchPattern |-> NullStr, likelyRecurring |-> FALSE],
     [categoryId |-> "coffee", suggestedMatchPattern |-> <<"S", "T", "A", "R">>,
      likelyRecurring |-> TRUE],
     [categoryId |-> "Groceries", suggestedMatchPattern |-> <<" ", " ">>,
      likelyRecurring |-> FALSE],
     [categoryId |-> NoCat, suggestedMatchPattern |-> <<"W", "A", "S", "H">>,
      likelyRecurring |-> FALSE]}

\* The outcomes of client.responses.parse: it throws, it has no parsed
\* output, or it has suggestions, as many as asked for or not.
ServiceResponses ==
    {[kind |-> "error"], [kind |-> "unparsed"]}
    \cup [kind : {"parsed"}, suggestions : SeqsUpTo(ServiceSuggestions, MaxSuggested)]

LlmInit ==
    /\ llmInput = [apiKey |-> FALSE, transactions |-> <<>>, categoryList |-> <<>>]
    /\ llmResponse = [kind |-> "none"]
    /\ llmResult = <<>>

\* One call.  The service is asked only with an API key and a transaction.
SuggestCategoriesWithLlm ==
    /\ llmResult = <<>>
    /\ \E input \in LlmInputs :
          \E response \in IF input.apiKey /\ Len(input.transactions) > 0
                          THEN ServiceResponses ELSE {[kind |-> "none"]} :
              /\ llmInput' = input
              /\ llmResponse' = response
              /\ llmResult' = <<suggestCategoriesWithLlm(input, response)>>
    /\ UNCHANGED <<ledgerVars, parseVars, catVars, pipeVars, uploadVars, settingsVars,
                   streamVars>>

NextLlm == SuggestCategoriesWithLlm

(***************************************************************************)
(* The settings page: seedCategoriesIfEmpty statement by statement (the    *)
(* page asks for the categories and for the rules at once, and each        *)
(* request seeds), createCategory, createCategoryRule and deleteCategory.  *)
(* The primary key of categories makes the table a set of ids: an INSERT   *)
(* of an id that is present fails as a whole.                              *)
(***************************************************************************)
MaxSeedCalls == 3

MaxCreated == 1

MaxDeletes == 2

MaxSettingsRules == 1

SeedCallers == {1, 2}

\* isSystem of the rows of DEFAULT_CATEGORIES; createCategory writes false.
isSystem(id) == id \in DEFAULT_CATEGORIES \ {"subscriptions", "travel"}

\* crypto.randomUUID(), the n-th one
randomUUID(n) == IF n = 1 THEN "uuid1" ELSE IF n = 2 THEN "uuid2" ELSE "uuid3"

\* A seeding that takes every table for an empty one.
existingAny(table) == TRUE

\* existing.length === 0
existingNone(table) == table = {}

\* transferExists.length === 0
transferMissing(table) == "transfer" \notin table

\* INSERT INTO categories: refused when one of the ids is present
InsertFails(table, ids) == table \cap ids # {}

InsertCategories(table, ids) == IF InsertFails(table, ids) THEN table ELSE table \cup ids

\* What the settings page and the review screen pick categories from.
SettingsChoices == {"travel", "restaurants", "uuid1"}

\* What deleteCategory is called with; "" stands for a missing id.
DeleteIds == {"", "travel", "restaurants", "uuid1", "uuid9"}

SettingsInit ==
    /\ seedPc = [c \in SeedCallers |-> "idle"]
    /\ seedCalls = 0
    /\ created = 0
    /\ deletes = 0
    /\ delResult = [id |-> "", error |-> "none"]

\* seedCategoriesIfEmpty is called and runs its first select.
SeedSelect(c) ==
    /\ seedPc[c] \in {"idle", "returned", "thrown"}
    /\ seedCalls < MaxSeedCalls
    /\ seedCalls' = seedCalls + 1
    /\ seedPc' = [seedPc EXCEPT ![c] = IF existingNone(categories) THEN "insertAll"
                                       ELSE "selectTransfer"]
    /\ UNCHANGED <<created, deletes, delResult, storeVars, uiVars, ledgerVars, parseVars,
                   catVars, uploadVars, llmVars, streamVars>>

\* db.insert(categories).values(DEFAULT_CATEGORIES); return
SeedInsertAll(c) ==
    /\ seedPc[c] = "insertAll"
    /\ categories' = InsertCategories(categories, DEFAULT_CATEGORIES)
    /\ seedPc' = [seedPc EXCEPT ![c] = IF InsertFails(categories, DEFAULT_CATEGORIES)
                                       THEN "thrown" ELSE "returned"]
    /\ UNCHANGED <<seedCalls, created, deletes, delResult, categoryRules, uiVars,
                   ledgerVars, parseVars, catVars, uploadVars, llmVars, streamVars>>

\* The select of the transfer row.
SeedSelectTransfer(c) ==
    /\ seedPc[c] = "selectTransfer"
    /\ seedPc' = [seedPc EXCEPT ![c] = IF transferMissing(categories) THEN "insertTransfer"
                                       ELSE "returned"]
    /\ UNCHANGED <<seedCalls, created, deletes, delResult, storeVars, uiVars, ledgerVars,
                   parseVars, catVars, uploadVars, llmVars, streamVars>>

\* db.insert(categories).values(TRANSFER_CATEGORY)
SeedInsertTransfer(c) ==
    /\ seedPc[c] = "insertTransfer"
    /\ categories' = InsertCategories(categories, {"transfer"})
    /\ seedPc' = [seedPc EXCEPT ![c] = IF InsertFails(categories, {"transfer"})
                                       THEN "thrown" ELSE "returned"]
    /\ UNCHANGED <<seedCalls, created, deletes, delResult, categoryRules, uiVars,
                   ledgerVars, parseVars, catVars, uploadVars, llmVars, streamVars>>

SeedStep ==
    \E c \in SeedCallers :
        SeedSelect(c) \/ SeedInsertAll(c) \/ SeedSelectTransfer(c) \/ SeedInsertTransfer(c)

\* createCategory
CreateCategory ==
    /\ created < MaxCreated
    /\ created' = created + 1
    /\ categories' = InsertCategories(categories, {randomUUID(created + 1)})
    /\ UNCHANGED <<seedPc, seedCalls, deletes, delResult, categoryRules, uiVars,
                   ledgerVars, parseVars, catVars, uploadVars, llmVars, streamVars>>

\* The id of a new rule: one no row of the table has.
NewRuleId(table) ==
    CHOOSE n \in 1..(Len(table) + 1) : \A i \in DOMAIN table : table[i].id # n

\* createCategoryRule, for a category of the table.
CreateCategoryRuleFor ==
    /\ Len(categoryRules) < MaxSettingsRules
    /\ \E c \in categories \cap SettingsChoices :
          categoryRules' =
              Append(categoryRules,
                     [CategoryRuleRow(categoryRules,
                                      [categoryId |-> c, matchPattern |-> LedgerText.COFFEE,
                                       matchType |-> "contains"])
                      EXCEPT !.id = NewRuleId(categoryRules)])
    /\ UNCHANGED <<settingsVars, categories, uiVars, ledgerVars, parseVars, catVars,
                   uploadVars, llmVars, streamVars>>

\* importTransactions of a transaction filed under a category of the table.
ImportCategorized ==
    /\ opLog = <<>>
    /\ clock < MaxClock
    /\ \E c \in categories \cap SettingsChoices :
          importTransactions("acct1", PreparedAs(UnidentifiedBatch, c, "manual"), clock + 1)
    /\ UNCHANGED settingsVars

\* The rules left by db.delete(categoryRules).where(categoryId = id)
RulesWithout(table, id) == SelectSeq(table, LAMBDA r : r.categoryId # id)

\* A deleteCategory that takes a system category for one of the user's.
DeleteErrorOfAny(id, table, rows) ==
    IF id = "" THEN "id required"
    ELSE IF id \notin table THEN "Category not found"
    ELSE IF \E r \in rows : r.categoryId = id THEN "Category is used by transactions"
    ELSE "none"

\* The error deleteCategory throws, "none" for none.
DeleteError(id, table, rows) ==
    IF id = "" THEN "id required"
    ELSE IF id \notin table THEN "Category not found"
    ELSE IF isSystem(id) THEN "System categories cannot be deleted"
    ELSE IF \E r \in rows : r.categoryId = id THEN "Category is used by transactions"
    ELSE "none"

\* deleteCategory: the rules of the category go first, then its row.
DeleteCategory ==
    /\ deletes < MaxDeletes
    /\ deletes' = deletes + 1
    /\ \E id \in DeleteIds :
          /\ delResult' = [id |-> id, error |-> DeleteError(id, categories, ledger)]
          /\ IF DeleteError(id, categories, ledger) = "none"
             THEN /\ categoryRules' = RulesWithout(categoryRules, id)
                  /\ categories' = categories \ {id}
             ELSE UNCHANGED <<categories, categoryRules>>
    /\ UNCHANGED <<seedPc, seedCalls, created, uiVars, ledgerVars, parseVars, catVars,
                   uploadVars, llmVars, streamVars>>

NextSettings ==
    \/ SeedStep
    \/ CreateCategory
    \/ CreateCategoryRuleFor
    \/ ImportCategorized
    \/ DeleteCategory

(***************************************************************************)
(* convertOpenAIStreamToAGUI: an async generator over the adapter's        *)
(* stream.  A chunk is a record of the fields it has; a field it lacks is  *)
(* undefined.  Text the converter works on (delta, content, arguments) is  *)
(* a sequence of characters, everything else is a token.                   *)
(***************************************************************************)
MaxChunks == 2

AGUI_TYPES ==
    {"RUN_STARTED", "RUN_FINISHED", "RUN_ERROR", "TEXT_MESSAGE_START",
     "TEXT_MESSAGE_CONTENT", "TEXT_MESSAGE_END", "TOOL_CALL_START", "TOOL_CALL_ARGS",
     "TOOL_CALL_END", "STEP_STARTED", "STEP_FINISHED", "STATE_SNAPSHOT", "STATE_DELTA",
     "CUSTOM"}

\* "type" in chunk && AGUI_TYPES.has(chunk.type)
isAGUIChunk(chunk) == "type" \in DOMAIN chunk /\ chunk.type \in AGUI_TYPES

\* c.field ?? fallback  (and c.field itself, with undefined for fallback)
OrElse(c, field, fallback) == IF field \in DOMAIN c THEN c[field] ELSE fallback

Undefined == <<"undefined">>

\* c.toolCall?.function?.arguments?.trim() || "{}"
toolCallArgs(c) ==
    IF "toolCall" \notin DOMAIN c \/ Trim(c.toolCall.function.arguments) = <<>>
    THEN <<"{", "}">>
    ELSE Trim(c.toolCall.function.arguments)

\* JSON.parse(args) in its try: the value, or undefined when it throws.  Of
\* the arguments that occur only "{}" is JSON.
parsedInput(args) == IF args = <<"{", "}">> THEN "{}" ELSE "undefined"

toolCallStart(c) ==
    [type |-> "TOOL_CALL_START", timestamp |-> c.timestamp, model |-> c.model,
     toolCallId |-> IF "toolCall" \in DOMAIN c THEN c.toolCall.id ELSE "",
     toolName |-> IF "toolCall" \in DOMAIN c THEN c.toolCall.function.name ELSE "",
     index |-> OrElse(c, "index", 0)]

toolCallArgsEvent(c) ==
    [type |-> "TOOL_CALL_ARGS", timestamp |-> c.timestamp, model |-> c.model,
     toolCallId |-> IF "toolCall" \in DOMAIN c THEN c.toolCall.id ELSE "",
     delta |-> toolCallArgs(c), args |-> toolCallArgs(c)]

toolCallEnd(c) ==
    [type |-> "TOOL_CALL_END", timestamp |-> c.timestamp, model |-> c.model,
     toolCallId |-> IF "toolCall" \in DOMAIN c THEN c.toolCall.id ELSE "",
     toolName |-> IF "toolCall" \in DOMAIN c THEN c.toolCall.function.name ELSE "",
     input |-> parsedInput(toolCallArgs(c))]

\* A converter that ends a tool call before its arguments.
toolCallEndFirst(c) == <<toolCallStart(c), toolCallEnd(c), toolCallArgsEvent(c)>>

\* The three yields of a tool_call chunk.
toolCallEvents(c) == <<toolCallStart(c), toolCallArgsEvent(c), toolCallEnd(c)>>

\* What one pass of the loop body yields for a chunk, in order.
chunkEvents(c) ==
    IF isAGUIChunk(c) THEN <<c>>
    ELSE IF "type" \notin DOMAIN c THEN <<>>
    ELSE IF c.type = "content"
    THEN <<[type |-> "TEXT_MESSAGE_CONTENT", timestamp |-> c.timestamp, model |-> c.model,
            messageId |-> c.id, delta |-> OrElse(c, "delta", <<>>),
            content |-> OrElse(c, "content", Undefined)]>>
    ELSE IF c.type = "tool_call" THEN toolCallEvents(c)
    ELSE IF c.type = "done"
    THEN <<[type |-> "RUN_FINISHED", timestamp |-> c.timestamp, model |-> c.model,
            runId |-> c.id, finishReason |-> OrElse(c, "finishReason", "undefined"),
            usage |-> OrElse(c, "usage", "undefined")]>>
    ELSE IF c.type = "thinking"
    THEN <<[type |-> "STEP_FINISHED", timestamp |-> c.timestamp, model |-> c.model,
            stepId |-> c.id, delta |-> OrElse(c, "delta", <<>>),
            content |-> OrElse(c, "content", Undefined)]>>
    ELSE IF c.type = "error"
    THEN <<[type |-> "RUN_ERROR", timestamp |-> c.timestamp, model |-> c.model,
            runId |-> c.id, error |-> OrElse(c, "error", "undefined")]>>
    ELSE <<>>

\* The first chunk after the i-th for which the loop body yields, or one
\* past the end of the stream.
RECURSIVE nextYielding(_, _)
nextYielding(chunks, i) ==
    IF i + 1 > Len(chunks) THEN Len(chunks) + 1
    ELSE IF chunkEvents(chunks[i + 1]) # <<>> THEN i + 1
    ELSE nextYielding(chunks, i + 1)

\* The chunks an adapter's stream may hold.
ChunkPool ==
    {[type |-> "RUN_STARTED", runId |-> "run1", timestamp |-> 1, model |-> "m"],
     [type |-> "TOOL_CALL_END", toolCallId |-> "call0", toolName |-> "lookup",
      timestamp |-> 1, model |-> "m"],
     [type |-> "content", id |-> "msg1", model |-> "m", timestamp |-> 2,
      delta |-> <<"H", "i">>, content |-> <<"H", "i">>],
     [type |-> "content", id |-> "msg2", model |-> "m", timestamp |-> 5,
      content |-> <<"H", "i">>],
     [type |-> "tool_call", id |-> "msg1", model |-> "m", timestamp |-> 3, index |-> 1,
      toolCall |-> [id |-> "call1", type |-> "function",
                    function |-> [name |-> "lookup", arguments |-> <<" ", "{", "}", " ">>]]],
     [type |-> "tool_call", id |-> "msg1", model |-> "m", timestamp |-> 3,
      toolCall |-> [id |-> "call2", type |-> "function",
                    function |-> [name |-> "lookup", arguments |-> <<"{", "a">>]]],
     [type |-> "tool_call", id |-> "msg1", model |-> "m", timestamp |-> 3],
     [type |-> "done", id |-> "run1", model |-> "m", timestamp |-> 4,
      finishReason |-> "stop", usage |-> "usage1"],
     [type |-> "thinking", id |-> "step1", model |-> "m", timestamp |-> 2,
      delta |-> <<"h", "m">>, content |-> <<"h", "m">>],
     [type |-> "error", id |-> "run1", model |-> "m", timestamp |-> 4, error |-> "error1"],
     [type |-> "usage", id |-> "run1", model |-> "m", timestamp |-> 4],
     [id |-> "run1", model |-> "m", timestamp |-> 4]}

Streams == SeqsUpTo(ChunkPool, MaxChunks)

StreamInit ==
    /\ stream = <<>>
    /\ streamI = 0
    /\ streamPending = <<>>
    /\ streamOut = <<>>
    /\ streamPc = "idle"

\* chatStream(options): the generator is made over the adapter's stream;
\* nothing of it runs before the first next().
ChatStream ==
    /\ streamPc = "idle"
    /\ stream' \in Streams
    /\ streamPc' = "running"
    /\ UNCHANGED <<streamI, streamPending, streamOut, ledgerVars, parseVars, catVars,
                   pipeVars, uploadVars, llmVars, settingsVars>>

\* One next() of the consumer: the generator runs on to its next yield, or
\* to the end of the stream.
StreamNext ==
    /\ streamPc = "running"
    /\ IF streamPending # <<>>
       THEN /\ streamOut' = Append(streamOut, Head(streamPending))
            /\ streamPending' = Tail(streamPending)
            /\ UNCHANGED <<streamI, streamPc>>
       ELSE IF nextYielding(stream, streamI) > Len(stream)
       THEN /\ streamI' = Len(stream)
            /\ streamPc' = "done"
            /\ UNCHANGED <<streamPending, streamOut>>
       ELSE /\ streamI' = nextYielding(stream, streamI)
            /\ streamOut' =
                  Append(streamOut, Head(chunkEvents(stream[nextYielding(stream, streamI)])))
            /\ streamPending' = Tail(chunkEvents(stream[nextYielding(stream, streamI)]))
            /\ UNCHANGED streamPc
    /\ UNCHANGED <<stream, ledgerVars, parseVars, catVars, pipeVars, uploadVars, llmVars,
                   settingsVars>>

NextStream == ChatStream \/ StreamNext

Init ==
    /\ LedgerInit
    /\ ParseInit
    /\ CatInit
    /\ PipeInit
    /\ UploadInit
    /\ LlmInit
    /\ SettingsInit
    /\ StreamInit

SpecLedger == Init /\ [][NextLedger]_vars

SpecParse == Init /\ [][NextParse]_vars

SpecCat == Init /\ [][NextCat]_vars

SpecValidate == Init /\ [][NextValidate]_vars

SpecPage == Init /\ [][NextPage]_vars

SpecPipeline == Init /\ [][NextPipeline]_vars

SpecUpload == Init /\ [][NextUpload]_vars

SpecIntake == Init /\ [][NextIntake]_vars

SpecLlm == Init /\ [][NextLlm]_vars

SpecSettings == Init /\ [][NextSettings]_vars

SpecStream == Init /\ [][NextStream]_vars

\* categorizeTransaction, once called, runs to its return: no step of it
\* waits on anything.  Nothing obliges the caller to call.
SpecCatFair ==
    /\ SpecCat
    /\ WF_vars(CatRuleStep)
    /\ WF_vars(CatSimilarStep)
    /\ WF_vars(CatManualStep)

(***************************************************************************)
(* Claims on the ledger store                                              *)
(***************************************************************************)
IsImport(i) == opLog[i].op = "import"

\* The key importTransactions files a transaction under.
KeyOf(tx) == IF tx.externalId # NullStr THEN tx.externalId ELSE stableExternalId(tx)

RowsOfKey(table, accountId, externalId) ==
    {r \in table : r.accountId = accountId /\ r.externalId = externalId}

InBatch(txs) == {txs[k] : k \in DOMAIN txs}

\* The table the requests of log leave, served in that order from an empty
\* table.
RECURSIVE Replay(_, _)
Replay(log, table) ==
    IF log = <<>> THEN table
    ELSE LET op == Head(log)
         IN  Replay(Tail(log),
                    IF op.op = "import"
                    THEN ImportedLedger(table, op.accountId, op.transactions,
                                        op.firstId, op.now)
                    ELSE CreatedLedger(table, op.accountId, op.data,
                                       op.firstId, op.now))

\* A table's content: its rows without the generated id and the timestamp.
Content(table) ==
    {[accountId |-> r.accountId, externalId |-> r.externalId,
      amountCents |-> r.amountCents, date |-> r.date, name |-> r.name,
      merchantName |-> r.merchantName, categoryId |-> r.categoryId,
      autoCategorized |-> r.autoCategorized, isPending |-> r.isPending,
      metadata |-> r.metadata] : r \in table}

NoDuplicateKeys(table) ==
    \A r1, r2 \in table :
        (r1.externalId # NullStr /\ r1.accountId = r2.accountId
         /\ r1.externalId = r2.externalId) => r1 = r2

\* C1: a transaction imported twice into one account has exactly one row
\* under its (accountId, externalId), and that row is the one the first import
\* made (its id is older than the ids the second import generated), updated
\* by the second import.
C1_ImportTwiceOneRow ==
    \A i, j \in DOMAIN opLog :
        (i < j /\ IsImport(i) /\ IsImport(j)
         /\ opLog[i].accountId = opLog[j].accountId) =>
            \A tx \in InBatch(opLog[i].transactions) \cap InBatch(opLog[j].transactions) :
                LET rows == RowsOfKey(ledger, opLog[j].accountId, KeyOf(tx))
                IN  /\ Cardinality(rows) = 1
                    /\ \A r \in rows : /\ r.id < opLog[j].firstId
                                       /\ r.updatedAt >= opLog[j].now

C1_Witness ==
    \E i, j \in DOMAIN opLog :
        /\ i < j /\ IsImport(i) /\ IsImport(j)
        /\ opLog[i].accountId = opLog[j].accountId
        /\ opLog[i].transactions = opLog[j].transactions
        /\ opLog[j].now > opLog[i].now
        /\ \E r \in ledger : r.accountId = opLog[j].accountId
                             /\ r.updatedAt = opLog[j].now

\* Two batches overlap when they hold a transaction in common.
Overlapping(txs1, txs2) == InBatch(txs1) \cap InBatch(txs2) # {}

\* C4: two imports of overlapping data into one account leave the same ledger
\* content whichever is served first, with no duplicate (accountId,
\* externalId) rows.
C4_OverlapConverges ==
    LET n == Len(opLog)
    IN  (/\ n >= 2 /\ IsImport(n - 1) /\ IsImport(n)
         /\ opLog[n - 1].accountId = opLog[n].accountId
         /\ Overlapping(opLog[n - 1].transactions, opLog[n].transactions)) =>
            /\ NoDuplicateKeys(ledger)
            /\ Content(ledger) =
                 Content(Replay(SubSeq(opLog, 1, n - 2) \o <<opLog[n], opLog[n - 1]>>, {}))

\* C5: a row that an import hits keeps its id, date, name, isPending and
\* metadata, and takes the amount, merchant name, category, auto-categorized
\* flag of the last row of the batch under its key and the time of the import;
\* no other request changes a stored row at all.
C5_ConflictFrame ==
    [][\A r \in ledger :
          LET hits == IF Len(opLog') > Len(opLog) /\ opLog'[Len(opLog')].op = "import"
                      THEN {k \in DOMAIN opLog'[Len(opLog')].transactions :
                              /\ opLog'[Len(opLog')].accountId = r.accountId
                              /\ KeyOf(opLog'[Len(opLog')].transactions[k]) = r.externalId}
                      ELSE {}
          IN  IF hits = {} THEN r \in ledger'
              ELSE LET k == CHOOSE x \in hits : \A y \in hits : y <= x
                       tx == opLog'[Len(opLog')].transactions[k]
                   IN  [r EXCEPT !.amountCents = IF tx.type = "credit"
                                                 THEN tx.amountCents
                                                 ELSE -tx.amountCents,
                                 !.merchantName = NullStr,
                                 !.categoryId = tx.categoryId,
                                 !.autoCategorized = tx.source # "manual",
                                 !.updatedAt = opLog'[Len(opLog')].now] \in ledger'
      ]_vars

\* An import has hit a row whose date, name and merchant name differed from
\* the incoming ones: the row kept its date and name and an older id.
C5_Witness ==
    \E j \in DOMAIN opLog :
        /\ IsImport(j)
        /\ \E tx \in InBatch(opLog[j].transactions), r \in ledger :
              /\ r.accountId = opLog[j].accountId
              /\ r.externalId = KeyOf(tx)
              /\ r.date # tx.date
              /\ r.name # tx.description
              /\ r.id < opLog[j].firstId
              /\ r.updatedAt = opLog[j].now
              /\ r.categoryId = tx.categoryId

(***************************************************************************)
(* Claims on the identity generator                                        *)
(***************************************************************************)
\* C2: two transactions of one parse that agree in date, normalized
\* description and absolute amount have the same externalId.
C2_SameTransactionSameId ==
    \A i, j \in DOMAIN parseResult.transactions :
        LET a == parseResult.transactions[i]
            b == parseResult.transactions[j]
        IN  (a.date = b.date /\ a.description = b.description
             /\ a.amountCents = b.amountCents) => a.externalId = b.externalId

\* C3: two transactions of one parse that differ in date, in normalized
\* description or in amount have different externalIds.
C3_DifferentTransactionDifferentId ==
    \A i, j \in DOMAIN parseResult.transactions :
        LET a == parseResult.transactions[i]
            b == parseResult.transactions[j]
        IN  (a.date # b.date \/ a.description # b.description
             \/ a.amountCents # b.amountCents) => a.externalId # b.externalId

(***************************************************************************)
(* Claims on the categorizer                                               *)
(***************************************************************************)
\* Two characters that differ at most in case.
SameLetter(a, b) ==
    a = b \/ \E i \in 1..26 : {a, b} = {Uppercase[i], Lowercase[i]}

EqualIgnoringCase(s1, s2) ==
    Len(s1) = Len(s2) /\ \A k \in 1..Len(s1) : SameLetter(s1[k], s2[k])

\* pat stands in s at position p, case aside.
OccursAt(pat, s, p) ==
    /\ p + Len(pat) - 1 <= Len(s)
    /\ \A k \in 1..Len(pat) : SameLetter(pat[k], s[p + k - 1])

OccursIn(pat, s) == \E p \in 1..(Len(s) + 1) : OccursAt(pat, s, p)

\* What the rule tier is specified to match.
MatchesAsSpecified(rule, tx) ==
    LET field == IF rule.matchField = "merchant_name" THEN tx.merchantName
                 ELSE tx.name
    IN  /\ field # NullStr
        /\ CASE rule.matchType = "exact" -> EqualIgnoringCase(field, rule.matchPattern)
             [] rule.matchType = "starts_with" -> OccursAt(rule.matchPattern, field, 1)
             [] OTHER -> OccursIn(rule.matchPattern, field)

\* The rules of the call, by position, that are enabled and match.
ApplicableRules ==
    {i \in 1..Len(catRules) :
        catRules[i].isEnabled /\ MatchesAsSpecified(catRules[i], catTx)}

\* C6: a call whose transaction matches an enabled rule returns through the
\* rule tier: one result, source rule, confidence 1.0, the category of a
\* matching enabled rule, whatever the history holds.
C6_RuleTierFirst ==
    (catPc = "done" /\ ApplicableRules # {}) =>
        /\ Len(catResult) = 1
        /\ catResult[1].source = "rule"
        /\ catResult[1].confidence = 100
        /\ \E i \in ApplicableRules : catResult[1].categoryId = catRules[i].categoryId

\* A rule has decided a call whose history votes for another category.
C6_Witness ==
    /\ catPc = "done"
    /\ ApplicableRules # {}
    /\ Len(catResult) = 1
    /\ catResult[1].source = "rule"
    /\ SimilarityVote(findSimilarTransactions(catTx.name, catHist, SimilarLimit)).commit
    /\ SimilarityVote(findSimilarTransactions(catTx.name, catHist, SimilarLimit)).result.categoryId
          # catResult[1].categoryId

\* C7: the rule that decides is the enabled matching rule of the highest
\* priority, the first declared among equals, where matching is equality,
\* prefix or substring of the selected field, case aside, and never on an
\* absent field; with no such rule the rule tier decides nothing.
C7_RuleOrder ==
    catPc = "done" =>
        IF ApplicableRules = {}
        THEN \A k \in 1..Len(catResult) : catResult[k].source # "rule"
        ELSE LET w == CHOOSE i \in ApplicableRules :
                        \A j \in ApplicableRules :
                            \/ catRules[j].priority < catRules[i].priority
                            \/ catRules[j].priority = catRules[i].priority /\ i <= j
             IN  /\ catResult[1].source = "rule"
                 /\ catResult[1].categoryId = catRules[w].categoryId
                 /\ catResult[1].explanation = <<"Matched rule", catRules[w].matchPattern>>

\* A rule declared after a matching rule of lower priority has decided, past
\* a prefix rule of higher priority whose pattern stands inside the name but
\* not at its start, and past a rule on the merchant name.
C7_Witness ==
    /\ catPc = "done"
    /\ \E i, j, k \in 1..Len(catRules) :
          /\ i < j
          /\ {i, j} \subseteq ApplicableRules
          /\ catRules[i].matchField = "merchant_name"
          /\ catRules[j].priority > catRules[i].priority
          /\ catRules[j].categoryId # catRules[i].categoryId
          /\ catResult[1].categoryId = catRules[j].categoryId
          /\ catRules[k].isEnabled
          /\ catRules[k].matchType = "starts_with"
          /\ catRules[k].priority > catRules[i].priority
          /\ k \notin ApplicableRules
          /\ OccursIn(catRules[k].matchPattern, catTx.name)

\* The votes of the candidates the similarity tier found.
VotesFor(categoryId) ==
    Cardinality({i \in 1..Len(catSimilar) : catSimilar[i].categoryId = categoryId})

VotedCategories ==
    {catSimilar[i].categoryId : i \in 1..Len(catSimilar)} \ {NoCat, ""}

SimilarityCommits ==
    Len(catSimilar) >= 3 /\ \E c \in VotedCategories : VotesFor(c) >= 2

\* C8: with no rule matching, the call returns through the similarity tier
\* exactly when it found at least 3 candidates and some category has at least
\* 2 of their votes; the category returned then has the most votes and
\* confidence min(0.95, 0.6 + 0.1 x its votes); otherwise the call falls
\* through to the manual tier.
C8_SimilarityVote ==
    (catPc = "done" /\ ApplicableRules = {}) =>
        /\ Len(catResult) = 1
        /\ IF SimilarityCommits
           THEN /\ catResult[1].source = "ml"
                /\ catResult[1].categoryId \in VotedCategories
                /\ \A c \in VotedCategories :
                      VotesFor(c) <= VotesFor(catResult[1].categoryId)
                /\ catResult[1].confidence =
                      IF 60 + 10 * VotesFor(catResult[1].categoryId) < 95
                      THEN 60 + 10 * VotesFor(catResult[1].categoryId)
                      ELSE 95
           ELSE catResult[1].source = "manual"

\* STARBUCKS #789 after three STARBUCKS entries under one category: that
\* category at 0.9.
C8_Witness ==
    /\ catPc = "done"
    /\ catTx.name = Names.Starbucks789
    /\ catHist = <<HistoryRow(Names.Starbucks123, "restaurants"),
                   HistoryRow(Names.Starbucks456, "restaurants"),
                   HistoryRow(Names.StarbucksDowntown, "restaurants")>>
    /\ Len(catResult) = 1
    /\ catResult[1].categoryId = "restaurants"
    /\ catResult[1].confidence = 90
    /\ catResult[1].source = "ml"

\* The similarity tier has run in this call.
SimilarRan ==
    \/ catPc = "manual"
    \/ catPc = "done" /\ Len(catResult) = 1 /\ catResult[1].source # "rule"

\* The words of s: the maximal runs without white space, as <<first, last>>.
WordSpans(s) ==
    {sp \in {a \in 1..Len(s) : ~IsSpace(s[a]) /\ (a = 1 \/ IsSpace(s[a - 1]))}
            \X {b \in 1..Len(s) : ~IsSpace(s[b]) /\ (b = Len(s) \/ IsSpace(s[b + 1]))} :
        sp[1] <= sp[2] /\ \A k \in sp[1]..sp[2] : ~IsSpace(s[k])}

Tokens(s) == {toLowerCase(SubSeq(s, sp[1], sp[2])) : sp \in WordSpans(s)}

\* The word-tokens longer than two characters that two names share.
SharedTokens(name, other) ==
    {w \in Tokens(name) : Len(w) > 2 /\ w \in Tokens(other)}

Least(a, b) == IF a < b THEN a ELSE b

\* C9 as stated: the candidates are the history entries, their name not that
\* of the new transaction, that share a word-token longer than two characters
\* with it, the 10 sharing the most tokens when there are more.
C9_SharedTokenCandidates ==
    SimilarRan =>
        LET eligible == {i \in 1..Len(catHist) :
                            /\ ~EqualIgnoringCase(catHist[i].name, catTx.name)
                            /\ SharedTokens(catTx.name, catHist[i].name) # {}}
            kept == {catSimilar[k] : k \in 1..Len(catSimilar)}
        IN  /\ Len(catSimilar) = Least(10, Cardinality(eligible))
            /\ kept \subseteq {catHist[i] : i \in eligible}
            /\ \A i \in eligible :
                  catHist[i] \notin kept =>
                      \A t \in kept :
                          Cardinality(SharedTokens(catTx.name, t.name))
                              >= Cardinality(SharedTokens(catTx.name, catHist[i].name))

\* The words of the new name, each occurrence counted, longer than two
\* characters, that stand somewhere inside the other name, case aside.
WordsInside(name, other) ==
    {sp \in WordSpans(name) :
        sp[2] - sp[1] + 1 > 2 /\ OccursIn(SubSeq(name, sp[1], sp[2]), other)}

\* The scores of the entries of a history from entry i on, in order.
RECURSIVE WordsInsideFrom(_, _, _)
WordsInsideFrom(name, history, i) ==
    IF i > Len(history) THEN <<>>
    ELSE <<Cardinality(WordsInside(name, history[i].name))>>
         \o WordsInsideFrom(name, history, i + 1)

\* The place of entry i among the entries of the set eligible, by descending
\* score, entries of one score in history order.
RankAmong(eligible, score, i) ==
    1 + Cardinality({j \in eligible :
                        \/ score[j] > score[i]
                        \/ score[j] = score[i] /\ j < i})

\* C9, amended: an entry's score is the number of words of the new name
\* (split at white space, repeats counted, longer than two characters) that
\* occur as substrings of the entry's name, case aside; the candidates are
\* the entries with a positive score whose name differs from the new one in
\* more than case, by descending score, entries of one score in history
\* order, cut after the tenth.
C9_SubstringCandidates ==
    SimilarRan =>
        \E score \in {WordsInsideFrom(catTx.name, catHist, 1)} :
            \E eligible \in {{i \in 1..Len(catHist) :
                                /\ ~EqualIgnoringCase(catHist[i].name, catTx.name)
                                /\ score[i] > 0}} :
                /\ Len(catSimilar) = Least(10, Cardinality(eligible))
                /\ \A i \in eligible :
                      RankAmong(eligible, score, i) <= 10 =>
                          catSimilar[RankAmong(eligible, score, i)] = catHist[i]

\* CAR WASH against a history of more than ten CARPET STORE and WASH MY CAR
\* entries: the entries naming both words lead, CARPET STORE is among the
\* candidates, and the list is cut at ten.
C9_Witness ==
    /\ SimilarRan
    /\ catTx.name = Names.CarWash
    /\ Len(catHist) > 10
    /\ Len(catSimilar) = 10
    /\ catHist[1].name = Names.CarpetStore
    /\ catSimilar[1].name = Names.WashMyCar
    /\ catSimilar[10].name = Names.CarpetStore
    /\ \A i \in 1..Len(catHist) : catHist[i].name \in {Names.CarpetStore, Names.WashMyCar}

\* C10: every call runs to its return; a call that has returned has returned
\* one result, of the rule, the similarity or the manual tier, and results
\* are only ever produced by returning; when no enabled rule matches and the
\* vote does not carry, the result is no category, confidence 0, source
\* manual.
C10_TerminatesWithOneResult ==
    /\ (catPc = "rules") ~> (catPc = "done")
    /\ [](catPc = "done" =>
            /\ Len(catResult) = 1
            /\ catResult[1].source \in {"rule", "ml", "manual"})
    /\ [][catResult' # catResult => (catPc' = "done" \/ catResult' = <<>>)]_vars
    /\ []((catPc = "done" /\ ApplicableRules = {} /\ ~SimilarityCommits) =>
            /\ catResult[1].categoryId = NoCat
            /\ catResult[1].confidence = 0
            /\ catResult[1].source = "manual")

\* A call has come back from the manual tier after rules that did not match
\* and a vote of at least three candidates that did not carry.
C10_Witness ==
    /\ catPc = "done"
    /\ Len(catResult) = 1
    /\ catResult[1].source = "manual"
    /\ Len(catSimilar) >= 3
    /\ VotedCategories # {}

(***************************************************************************)
(* The shape of a CategorizationResult                                     *)
(***************************************************************************)

\* C11: every result categorizeTransaction has returned has a confidence
\* between 0 and 1 (0 and 100 hundredths), and the confidence goes with the
\* source: 1.0 for a rule; between 0.8 and 0.95 and with a category for the
\* similarity tier; 0 and without a category for the manual tier.
C11_ConfidenceBySource ==
    \A i \in 1..Len(catResult) :
        /\ catResult[i].confidence \in 0..100
        /\ catResult[i].source \in {"rule", "ml", "manual"}
        /\ catResult[i].source = "rule" => catResult[i].confidence = 100
        /\ catResult[i].source = "ml" =>
              /\ catResult[i].confidence \in 80..95
              /\ catResult[i].categoryId # NoCat
        /\ catResult[i].source = "manual" =>
              /\ catResult[i].confidence = 0
              /\ catResult[i].categoryId = NoCat

\* A similarity result from more votes than the cap lets count.
C11_Witness ==
    /\ catPc = "done"
    /\ Len(catResult) = 1
    /\ catResult[1].source = "ml"
    /\ catResult[1].confidence = 95
    /\ VotesFor(catResult[1].categoryId) > 4

(***************************************************************************)
(* Reconciliation                                                          *)
(***************************************************************************)
RECURSIVE SumOfType(_, _)
SumOfType(transactions, type) ==
    IF transactions = <<>> THEN 0
    ELSE (IF transactions[Len(transactions)].type = type
          THEN transactions[Len(transactions)].amountCents ELSE 0)
         + SumOfType(SubSeq(transactions, 1, Len(transactions) - 1), type)

\* What the list adds to the balance.
SignedSum(transactions) ==
    SumOfType(transactions, "credit") - SumOfType(transactions, "debit")

\* C12: validateExtraction returns calculatedEnd = the starting balance plus
\* the credits minus the debits of the list, and valid exactly when
\* calculatedEnd is less than 100 minor units away from the stated ending
\* balance: a gap of exactly 100 is invalid.
C12_ReconcileReport ==
    \A i \in 1..Len(validation) :
        /\ validation[i].result.calculatedEnd =
              validation[i].startBalanceCents
                  + SumOfType(validation[i].transactions, "credit")
                  - SumOfType(validation[i].transactions, "debit")
        /\ validation[i].result.valid <=>
              /\ validation[i].result.calculatedEnd
                     - validation[i].endBalanceCents < 100
              /\ validation[i].endBalanceCents
                     - validation[i].result.calculatedEnd < 100

\* A list of a credit and a debit that ends exactly 100 off.
C12_Witness ==
    /\ Len(validation) = 1
    /\ \E k \in 1..Len(validation[1].transactions) :
          validation[1].transactions[k].type = "credit"
    /\ \E k \in 1..Len(validation[1].transactions) :
          validation[1].transactions[k].type = "debit"
    /\ validation[1].result.calculatedEnd - validation[1].endBalanceCents = 100
    /\ ~validation[1].result.valid

\* C13, as stated: a list whose signed sum is the stated end minus the stated
\* start is reported valid with difference 0, and a list whose signed sum
\* falls 6500 short of that is reported invalid with difference 6500.
C13_ShortBy6500 ==
    \A i \in 1..Len(validation) :
        /\ SignedSum(validation[i].transactions)
              = validation[i].endBalanceCents - validation[i].startBalanceCents
           => /\ validation[i].result.valid
              /\ validation[i].result.difference = 0
        /\ SignedSum(validation[i].transactions)
              = validation[i].endBalanceCents - validation[i].startBalanceCents - 6500
           => /\ ~validation[i].result.valid
              /\ validation[i].result.difference = 6500

\* C13, amended: the difference is calculatedEnd minus the stated end, sign
\* kept.  A list whose signed sum is the stated end minus the stated start is
\* reported valid with difference 0; one that falls 6500 short is reported
\* invalid with difference -6500; one that is 6500 over is reported invalid
\* with difference 6500.
C13_SignedDifference ==
    \A i \in 1..Len(validation) :
        /\ SignedSum(validation[i].transactions)
              = validation[i].endBalanceCents - validation[i].startBalanceCents
           => /\ validation[i].result.valid
              /\ validation[i].result.difference = 0
        /\ SignedSum(validation[i].transactions)
              = validation[i].endBalanceCents - validation[i].startBalanceCents - 6500
           => /\ ~validation[i].result.valid
              /\ validation[i].result.difference = -6500
        /\ SignedSum(validation[i].transactions)
              = validation[i].endBalanceCents - validation[i].startBalanceCents + 6500
           => /\ ~validation[i].result.valid
              /\ validation[i].result.difference = 6500

\* A list of transactions that falls 6500 short of the stated end.
C13_Witness ==
    /\ Len(validation) = 1
    /\ validation[1].transactions # <<>>
    /\ SignedSum(validation[1].transactions)
          = validation[1].endBalanceCents - validation[1].startBalanceCents - 6500
    /\ ~validation[1].result.valid

(***************************************************************************)
(* Format-A line parsing                                                   *)
(***************************************************************************)
RECURSIVE LinesFrom(_, _)
LinesFrom(text, line) ==
    IF text = <<>> THEN <<line>>
    ELSE IF Head(text) = "\n" THEN <<line>> \o LinesFrom(Tail(text), <<>>)
    ELSE LinesFrom(Tail(text), Append(line, Head(text)))

\* The lines of the document under its header line.
StatementBody == Tail(LinesFrom(fullText, <<>>))

\* The two amount columns of the lines statements are made of, in cents, as
\* a reader of the statement takes them.
ColumnCents ==
    [Debit450 |-> <<0, 450>>, Credit450 |-> <<450, 0>>,
     Credit1000 |-> <<100000, 0>>, Credit1000Comma |-> <<100000, 0>>,
     Zero |-> <<0, 0>>]

\* The readings of a line as a two-column line: none or one.
TwoColumnReading(line) ==
    {ColumnCents[a] :
        a \in {a \in DOMAIN ColumnCents :
                  \E d \in {"Date", "Date25", "Date26"},
                     x \in {"Coffee", "CoffeeWide", "Payroll"} : line = Line(d, x, a)}}

ExpectedOfColumns(c) ==
    IF c[1] # 0 THEN <<[type |-> "credit", amountCents |-> c[1]]>>
    ELSE IF c[2] # 0 THEN <<[type |-> "debit", amountCents |-> c[2]]>>
    ELSE <<>>

RECURSIVE ExpectedTwoColumn(_)
ExpectedTwoColumn(lines) ==
    IF lines = <<>> THEN <<>>
    ELSE ExpectedOfColumns(CHOOSE c \in TwoColumnReading(Head(lines)) : TRUE)
         \o ExpectedTwoColumn(Tail(lines))

TwoColumnDocument ==
    /\ docPc = "parsed"
    /\ parseResult.bank = "bofa"
    /\ \A i \in DOMAIN StatementBody : TwoColumnReading(StatementBody[i]) # {}

\* The transactions that carry a line's description as it stands, which is
\* how the two-column pass takes it.
PlainlyDescribed ==
    {i \in DOMAIN parseResult.transactions :
        parseResult.transactions[i].description
            \in {StatementText.Coffee, StatementText.Payroll}}

\* C14: in a format-A document of two-column lines, the two-column pass
\* yields, line by line and in order, a credit of the first column's
\* magnitude when the first column is not zero, a debit of the second
\* column's magnitude when the first is zero and the second is not, and
\* nothing when both are zero.
C14_TwoColumnDirection ==
    TwoColumnDocument =>
        /\ Len(parseResult.transactions) >= Len(ExpectedTwoColumn(StatementBody))
        /\ \A i \in 1..Len(ExpectedTwoColumn(StatementBody)) :
              /\ parseResult.transactions[i].type
                    = ExpectedTwoColumn(StatementBody)[i].type
              /\ parseResult.transactions[i].amountCents
                    = ExpectedTwoColumn(StatementBody)[i].amountCents
        /\ PlainlyDescribed = 1..Len(ExpectedTwoColumn(StatementBody))

\* The two lines of the spec's example, parsed.
C14_Witness ==
    /\ TwoColumnDocument
    /\ StatementBody = <<Line("Date", "Coffee", "Debit450"),
                         Line("Date", "Payroll", "Credit1000")>>
    /\ parseResult.transactions[1].amountCents = 450
    /\ parseResult.transactions[1].type = "debit"
    /\ parseResult.transactions[2].amountCents = 100000
    /\ parseResult.transactions[2].type = "credit"

\* C15: in format-A parsing every statement line contributes at most one
\* transaction to the result: the single-amount pass emits nothing for a
\* line the two-column pass has captured.
C15_OneTransactionPerLine ==
    (docPc = "parsed" /\ parseResult.bank = "bofa") =>
        Len(parseResult.transactions) <= Len(StatementBody)

\* The single amount of the lines statements are made of, as a reader of the
\* statement takes it: its sign and its magnitude in cents.
SingleCents ==
    [Minus450 |-> [minus |-> TRUE, cents |-> 450],
     Plain450 |-> [minus |-> FALSE, cents |-> 450],
     Plain1000 |-> [minus |-> FALSE, cents |-> 100000],
     Plain1000Comma |-> [minus |-> FALSE, cents |-> 100000]]

\* The readings of a line as a single-amount line: none or one.
SingleReading(line) ==
    {[type |-> IF SingleCents[a].minus THEN "debit" ELSE "credit",
      amountCents |-> SingleCents[a].cents,
      description |-> IF x = "Payroll" THEN StatementText.Payroll
                      ELSE StatementText.Coffee] :
        <<x, a>> \in {p \in {"Coffee", "CoffeeWide", "Payroll"} \X DOMAIN SingleCents :
                        \E d \in {"Date", "Date25", "Date26"} :
                            line = Line(d, p[1], p[2])}}

SingleAmountDocument ==
    /\ docPc = "parsed"
    /\ parseResult.bank = "bofa"
    /\ \A i \in DOMAIN StatementBody : SingleReading(StatementBody[i]) # {}

\* What a transaction says of its line.
Said(tx) ==
    [type |-> tx.type, amountCents |-> tx.amountCents, description |-> tx.description]

\* C16: in a format-A document of single-amount lines, every transaction is
\* that of one of the lines, the first that of the first line: a debit
\* exactly when the line's amount has a leading minus sign, a credit
\* otherwise, with the amount's magnitude, never negative, as amountCents.
C16_SingleAmountSign ==
    SingleAmountDocument =>
        /\ parseResult.transactions # <<>>
        /\ Said(parseResult.transactions[1]) \in SingleReading(StatementBody[1])
        /\ \A k \in DOMAIN parseResult.transactions :
              /\ parseResult.transactions[k].amountCents >= 0
              /\ \E i \in DOMAIN StatementBody :
                    Said(parseResult.transactions[k]) \in SingleReading(StatementBody[i])

\* A debit with a minus sign and a credit without, from one document.
C16_Witness ==
    /\ SingleAmountDocument
    /\ StatementBody = <<Line("Date", "Coffee", "Minus450"),
                         Line("Date", "Payroll", "Plain1000Comma")>>
    /\ Len(parseResult.transactions) = 2
    /\ parseResult.transactions[1].type = "debit"
    /\ parseResult.transactions[1].amountCents = 450
    /\ parseResult.transactions[2].type = "credit"
    /\ parseResult.transactions[2].amountCents = 100000

\* C17: the description of every parsed transaction, whatever the format and
\* the pass, neither starts nor ends with white space and holds no two white
\* space characters in a row.
C17_DescriptionNormalized ==
    \A k \in DOMAIN parseResult.transactions :
        /\ parseResult.transactions[k].description # <<>>
        /\ ~IsSpace(Head(parseResult.transactions[k].description))
        /\ ~IsSpace(parseResult.transactions[k].description[
                        Len(parseResult.transactions[k].description)])
        /\ \A j \in 1..(Len(parseResult.transactions[k].description) - 1) :
              ~(/\ IsSpace(parseResult.transactions[k].description[j])
                /\ IsSpace(parseResult.transactions[k].description[j + 1]))

(***************************************************************************)
(* Format detection                                                        *)
(***************************************************************************)
\* marker occurs in text, letter for letter.
Contains(text, marker) ==
    \E p \in 1..(Len(text) - Len(marker) + 1) :
        SubSeq(text, p, p + Len(marker) - 1) = marker

\* C18: a document whose text contains "Bank of America" is taken as format
\* A, also when it contains "Capital One" too; one that contains only
\* "Capital One" as format B; any other as unknown, and parseStatement then
\* returns no transaction and nothing to review.
C18_FixedPriorityDetection ==
    docPc = "parsed" =>
        /\ Contains(fullText, S_BankOfAmerica) => parseResult.bank = "bofa"
        /\ (Contains(fullText, S_CapitalOne) /\ ~Contains(fullText, S_BankOfAmerica))
               => parseResult.bank = "capital_one"
        /\ (~Contains(fullText, S_CapitalOne) /\ ~Contains(fullText, S_BankOfAmerica))
               => /\ parseResult.bank = "unknown"
                  /\ parseResult.transactions = <<>>
                  /\ parseResult.needsReview = <<>>

\* A document that names both institutions, the second marker first.
C18_Witness ==
    /\ docPc = "parsed"
    /\ Contains(fullText, S_BankOfAmerica)
    /\ Contains(fullText, S_CapitalOne)
    /\ parseResult.bank = "bofa"
    /\ parseResult.transactions # <<>>

(***************************************************************************)
(* Reading order                                                           *)
(***************************************************************************)
\* Where a fragment stands on the page; a fragment without coordinates
\* counts as standing at 0.
FragmentX(item) == IF Len(item.transform) >= 5 THEN item.transform[5] ELSE 0

FragmentY(item) == IF Len(item.transform) >= 6 THEN item.transform[6] ELSE 0

\* How far apart two fragments stand vertically.
Apart(a, b) ==
    IF FragmentY(a) >= FragmentY(b) THEN FragmentY(a) - FragmentY(b)
    ELSE FragmentY(b) - FragmentY(a)

\* The extracted text holds the fragments' strings in the order of pageItems,
\* one separator between neighbours.
TextInItemOrder ==
    /\ SelectSeq(pageText, LAMBDA c : c \notin {" ", "\n"})
          = [i \in DOMAIN pageItems |-> pageItems[i].str[1]]
    /\ Len(pageText) = IF pageItems = <<>> THEN 0 ELSE 2 * Len(pageItems) - 1

\* C19, as stated: in the text extracted for a page, two fragments less than
\* 5 units apart vertically come in ascending horizontal order, and two
\* fragments 5 or more units apart come the higher one first, whatever the
\* fragments of the page.
C19_ReadingOrder ==
    pageText # NullStr =>
        /\ TextInItemOrder
        /\ \A i \in DOMAIN pageItems, j \in DOMAIN pageItems :
              i < j =>
                 /\ Apart(pageItems[i], pageItems[j]) < 5
                       => FragmentX(pageItems[i]) <= FragmentX(pageItems[j])
                 /\ Apart(pageItems[i], pageItems[j]) >= 5
                       => FragmentY(pageItems[i]) > FragmentY(pageItems[j])

\* The fragments fall into lines: standing at most 5 units apart is
\* transitive among them.
FallIntoLines ==
    \A i \in DOMAIN pageItems, j \in DOMAIN pageItems, k \in DOMAIN pageItems :
        (Apart(pageItems[i], pageItems[j]) <= 5 /\ Apart(pageItems[j], pageItems[k]) <= 5)
            => Apart(pageItems[i], pageItems[k]) <= 5

\* C19, amended: when the fragments of the page fall into lines, two
\* fragments at most 5 units apart vertically come in ascending horizontal
\* order in the extracted text (in the order of the input when they stand at
\* the same horizontal position), and two fragments more than 5 units apart
\* come the higher one first.
C19_ReadingOrderInLines ==
    (pageText # NullStr /\ FallIntoLines) =>
        /\ TextInItemOrder
        /\ \A i \in DOMAIN pageItems, j \in DOMAIN pageItems :
              i < j =>
                 /\ Apart(pageItems[i], pageItems[j]) <= 5
                       => \/ FragmentX(pageItems[i]) < FragmentX(pageItems[j])
                          \/ /\ FragmentX(pageItems[i]) = FragmentX(pageItems[j])
                             /\ \E m \in DOMAIN Uppercase, n \in DOMAIN Uppercase :
                                   /\ m < n
                                   /\ pageItems[i].str = <<Uppercase[m]>>
                                   /\ pageItems[j].str = <<Uppercase[n]>>
                 /\ Apart(pageItems[i], pageItems[j]) > 5
                       => FragmentY(pageItems[i]) > FragmentY(pageItems[j])

\* Three fragments in lines, two of them exactly 5 units apart, put in
\* another order than they came in.
C19_Witness ==
    /\ pageText # NullStr
    /\ FallIntoLines
    /\ Len(pageItems) = 3
    /\ pageItems[1].str # <<"A">>
    /\ \E i \in 1..3, j \in 1..3 : Apart(pageItems[i], pageItems[j]) = 5
    /\ \E i \in 1..3, j \in 1..3 : Apart(pageItems[i], pageItems[j]) > 5

(***************************************************************************)
(* Writes of the pipeline                                                  *)
(***************************************************************************)
\* A step of the upload page's pipeline: anything that moves the page on.
PipelineStep == uiVars' # uiVars

\* The step in which handleImport calls importTransactions.
ImportStep == pipePc = "rules" /\ pipePc' = "imported"

\* C20: no step of the pipeline before the importTransactions step (upload
\* and parsing, prepareImport, review, handleImport before the call, or an
\* abort at any of these points) changes the stored categories, category
\* rules or transactions.
C20_NoWriteBeforeImport ==
    [][(PipelineStep /\ ~ImportStep) => UNCHANGED <<categories, categoryRules,
                                                    ledger>>]_vars

(***************************************************************************)
(* Batches of documents                                                    *)
(***************************************************************************)
\* The transactions of the documents of a batch that can be read, in order.
RECURSIVE ReadableTransactions(_)
ReadableTransactions(list) ==
    IF list = <<>> THEN <<>>
    ELSE (IF Head(list).readable
          THEN parseStatement(Head(list).text, 2026).transactions ELSE <<>>)
         \o ReadableTransactions(Tail(list))

\* The request went past the checks made before the parsing loop.
RequestAccepted == uploadPc # "idle" /\ RequestError(files) = "none"

\* uploadFile is over, with a result or with an error.
UploadOver == uploadPc \in {"returned", "thrown"}

\* C21: in an accepted batch with a document that cannot be read or parsed
\* and documents that can, uploadFile still returns a result, and the result
\* holds the transactions of every document that parsed.
C21_FailuresIsolated ==
    (RequestAccepted /\ UploadOver /\ \E i \in DOMAIN files : files[i].readable) =>
        /\ uploadPc = "returned"
        /\ uploadData.transactions = ReadableTransactions(files)

(***************************************************************************)
(* Identity of imported transactions                                       *)
(***************************************************************************)
\* The transactions of a list whose externalId is absent.
Unidentified(txs) == SelectSeq(txs, LAMBDA t : t.externalId = NullStr)

\* C22: what parseStatement returns as needsReview is exactly the returned
\* transactions whose externalId is absent, in their order, and no row that
\* importTransactions wrote has an absent externalId, also when the
\* transactions it was given had none.
C22_NeedsReviewAndKeys ==
    /\ docPc = "parsed" =>
          parseResult.needsReview = Unidentified(parseResult.transactions)
    /\ \A row \in ledger : row.externalId # NullStr

\* A parsed statement was imported with the externalId of its transactions
\* left absent.
C22_Witness ==
    /\ docPc = "parsed"
    /\ parseResult.transactions # <<>>
    /\ opLog # <<>>
    /\ Unidentified(opLog[1].transactions) = opLog[1].transactions
    /\ ledger # {}

\* The rows stored for an account with a date, a name and a signed amount.
RowsOf(accountId, date, name, amountCents) ==
    {row \in ledger : /\ row.accountId = accountId
                      /\ row.date = date
                      /\ row.name = name
                      /\ row.amountCents = amountCents}

\* C23: after an import of transactions without externalId, two of them that
\* are equal in date, description and magnitude but one a debit and the other
\* a credit are stored as two rows, one with the negative and one with the
\* positive amount.
C23_DirectionInKey ==
    opLog # <<>> =>
        \A i \in DOMAIN opLog[1].transactions, j \in DOMAIN opLog[1].transactions :
            LET a == opLog[1].transactions[i]
                b == opLog[1].transactions[j]
            IN  (/\ a.externalId = NullStr /\ b.externalId = NullStr
                 /\ a.date = b.date /\ a.description = b.description
                 /\ a.amountCents = b.amountCents
                 /\ a.type = "debit" /\ b.type = "credit")
                => /\ RowsOf(opLog[1].accountId, a.date, a.description, -a.amountCents) # {}
                   /\ RowsOf(opLog[1].accountId, a.date, a.description, a.amountCents) # {}

\* The key importTransactions stores an entry of a batch under.
StoredKey(tx) == ImportRow("acct1", tx, 0).externalId

\* The entries of a batch that share the key of entry i.
SameKey(batch, i) == {j \in DOMAIN batch : StoredKey(batch[j]) = StoredKey(batch[i])}

\* The last of them in batch order.
LastOfKey(batch, i) ==
    batch[CHOOSE j \in SameKey(batch, i) : \A k \in SameKey(batch, i) : k <= j]

\* C25: after an import of a batch in which several entries map to one
\* externalId, the account has exactly one row under that key, the row has
\* the date, the description, the signed amount and the category of the last
\* of these entries in batch order, and the count returned is the length of
\* the batch.
C25_LastEntryWins ==
    opLog # <<>> =>
        /\ lastResult = [kind |-> "imported", imported |-> Len(opLog[1].transactions)]
        /\ \A i \in DOMAIN opLog[1].transactions :
              Cardinality(SameKey(opLog[1].transactions, i)) > 1 =>
                 \E row \in ledger :
                    /\ \A other \in ledger :
                          (other.accountId = opLog[1].accountId
                           /\ other.externalId = StoredKey(opLog[1].transactions[i]))
                          => other = row
                    /\ row.accountId = opLog[1].accountId
                    /\ row.externalId = StoredKey(opLog[1].transactions[i])
                    /\ row.date = LastOfKey(opLog[1].transactions, i).date
                    /\ row.name = LastOfKey(opLog[1].transactions, i).description
                    /\ row.categoryId = LastOfKey(opLog[1].transactions, i).categoryId
                    /\ row.amountCents =
                          IF LastOfKey(opLog[1].transactions, i).type = "credit"
                          THEN LastOfKey(opLog[1].transactions, i).amountCents
                          ELSE -LastOfKey(opLog[1].transactions, i).amountCents

(***************************************************************************)
(* Suggestions of the service                                              *)
(***************************************************************************)
\* A suggestion with nothing in it.
AllAbsent(s) ==
    /\ s.categoryId = NoCat
    /\ s.suggestedMatchPattern = NullStr
    /\ s.likelyRecurring = FALSE

\* The call had no API key or no transaction, or the service threw or gave
\* nothing parsed.
NoSuggestionsToUse ==
    \/ ~llmInput.apiKey
    \/ llmInput.transactions = <<>>
    \/ llmResponse.kind \in {"error", "unparsed"}

\* C24: every categoryId that suggestCategoriesWithLlm returns is absent or
\* the id of a category of the list it was given; and without an API key,
\* without transactions, or when the service call fails or yields nothing
\* parsed, it returns one all-absent suggestion per transaction of the input.
C24_SuggestionsValidated ==
    llmResult # <<>> =>
        /\ \A i \in DOMAIN llmResult[1] :
              \/ llmResult[1][i].categoryId = NoCat
              \/ \E k \in DOMAIN llmInput.categoryList :
                    llmInput.categoryList[k].id = llmResult[1][i].categoryId
        /\ NoSuggestionsToUse =>
              /\ Len(llmResult[1]) = Len(llmInput.transactions)
              /\ \A i \in DOMAIN llmResult[1] : AllAbsent(llmResult[1][i])

\* The service suggested an id of the list and an id of no list: the first
\* is returned, the second is not.
C24_Witness ==
    /\ llmResult # <<>>
    /\ llmResponse.kind = "parsed"
    /\ Len(llmResponse.suggestions) = 2
    /\ llmResponse.suggestions[1].categoryId = "coffee"
    /\ llmResponse.suggestions[2].categoryId = "groceries"
    /\ llmResult[1][1].categoryId = NoCat
    /\ llmResult[1][2].categoryId = "groceries"

(***************************************************************************)
(* The bank of a batch                                                     *)
(***************************************************************************)
\* The institutions of the documents uploadFile has parsed so far, those of
\* unrecognized documents left out.
BanksParsed ==
    {detectBank(files[i].text) : i \in {k \in DOMAIN files : k < fileI}} \ {"unknown"}

\* The tag that goes with the documents parsed so far.
TagOfParsed ==
    /\ uploadData.bank = "unknown" <=> BanksParsed = {}
    /\ uploadData.bank = "mixed" <=> Cardinality(BanksParsed) > 1
    /\ uploadData.bank \in {"bofa", "capital_one"} <=> BanksParsed = {uploadData.bank}

\* A turn of the loop leaves a mixed tag mixed, and a document that is not
\* recognized leaves the tag as it is.
TagStep ==
    (uploadPc = "parsing" /\ uploadPc' = "parsing" /\ fileI' = fileI + 1) =>
        /\ uploadData.bank = "mixed" => uploadData'.bank = "mixed"
        /\ detectBank(files[fileI].text) = "unknown" => uploadData'.bank = uploadData.bank

\* C26: while uploadFile parses the documents of an accepted batch in order
\* and when it returns, the bank tag is unknown iff every document so far is
\* unknown, the one institution iff the recognized documents so far agree,
\* and mixed iff two recognized documents differ; a mixed tag stays mixed and
\* an unknown document never changes the tag.
C26_BatchBankTag ==
    /\ [](uploadPc \in {"parsing", "returned"} => TagOfParsed)
    /\ [][TagStep]_vars

\* A batch of three returned as mixed: two institutions, then a document of
\* the first one again or an unrecognized one.
C26_Witness ==
    /\ uploadPc = "returned"
    /\ Len(files) = 3
    /\ detectBank(files[1].text) = "bofa"
    /\ detectBank(files[2].text) = "capital_one"
    /\ detectBank(files[3].text) \in {"bofa", "unknown"}
    /\ uploadData.bank = "mixed"

(***************************************************************************)
(* Requests refused                                                        *)
(***************************************************************************)
\* The non-empty files a form holds, under either key.
FilesPosted(form) ==
    SelectSeq(form.file \o form.filesList, LAMBDA f : f.isFile /\ f.size > 0)

\* Neither of type application/pdf nor named *.pdf, in any letter case.
NeitherPdf(f) ==
    /\ f.type # "application/pdf"
    /\ ~\E n \in DOMAIN f.name :
          /\ n + 3 = Len(f.name)
          /\ f.name[n] = "."
          /\ f.name[n + 1] \in {"p", "P"}
          /\ f.name[n + 2] \in {"d", "D"}
          /\ f.name[n + 3] \in {"f", "F"}

\* A list of files the claim has refused: none, more than 10, or one that is
\* no PDF.
Refusable(list) ==
    \/ list = <<>>
    \/ Len(list) > 10
    \/ \E i \in DOMAIN list : NeitherPdf(list[i])

\* uploadFile threw one of its three errors and has parsed no document.
RefusedBeforeParsing ==
    /\ uploadPc = "thrown"
    /\ uploadError \in {"Missing file(s)", "Maximum 10 PDFs per upload",
                        "Only PDF files are supported"}
    /\ fileI = 1
    /\ uploadData = [bank |-> "unknown", transactions |-> <<>>, needsReview |-> <<>>]

\* C27, as stated: a request whose non-empty files are none, more than 10,
\* or include one that is neither of type application/pdf nor named *.pdf is
\* refused with an error before any document is parsed.
C27_RequestRefused ==
    (uploadPc # "idle" /\ Refusable(FilesPosted(formData))) => RefusedBeforeParsing

\* C27, amended: the files that count are those getFiles picks from the
\* form; when they are none, more than 10, or include one that is no PDF,
\* the request is refused before any document is parsed, and otherwise the
\* request is taken on.
C27_PickedFilesRefused ==
    uploadPc # "idle" =>
        IF Refusable(files) THEN RefusedBeforeParsing
        ELSE uploadError \notin {"Missing file(s)", "Maximum 10 PDFs per upload",
                                 "Only PDF files are supported"}

\* A batch of 11 PDFs, refused.
C27_Witness ==
    /\ Len(files) = 11
    /\ \A i \in DOMAIN files : ~NeitherPdf(files[i])
    /\ RefusedBeforeParsing
    /\ uploadError = "Maximum 10 PDFs per upload"

(***************************************************************************)
(* Claims on the settings page                                             *)
(***************************************************************************)
\* A step of deleteCategory.
DeleteStep == deletes' # deletes

\* The category exists, is not a system category and no transaction is
\* filed under it.
Deletable(id) ==
    /\ id \in categories
    /\ ~isSystem(id)
    /\ \A r \in ledger : r.categoryId # id

\* C28: deleteCategory removes a category only if it exists, is not a
\* system category and no transaction refers to it, and then removes the
\* category's rules and the category and nothing else; in every other case
\* it raises an error and leaves categories, rules and transactions as they
\* were.  No other operation of the settings page removes a category.
C28_DeleteCategory ==
    [][/\ DeleteStep =>
            IF Deletable(delResult'.id)
            THEN /\ delResult'.error = "none"
                 /\ categories' = categories \ {delResult'.id}
                 /\ categoryRules' =
                       SelectSeq(categoryRules,
                                 LAMBDA r : r.categoryId # delResult'.id)
                 /\ ledger' = ledger
            ELSE /\ delResult'.error \in {"id required", "Category not found",
                                          "System categories cannot be deleted",
                                          "Category is used by transactions"}
                 /\ UNCHANGED <<categories, categoryRules, ledger>>
       /\ ~(categories \subseteq categories') =>
            /\ DeleteStep
            /\ Deletable(delResult'.id)
            /\ categories \ categories' = {delResult'.id}]_vars

\* A category was deleted while rules and transactions of other categories
\* are there.
C28_Witness ==
    /\ deletes > 0
    /\ delResult.error = "none"
    /\ delResult.id \notin categories
    /\ delResult.id \in {"travel", "uuid1"}
    /\ categoryRules # <<>>
    /\ ledger # {}

\* A call of seedCategoriesIfEmpty is over.
SeedOver(c) == seedPc[c] \in {"returned", "thrown"}

\* Caller c takes a step of seedCategoriesIfEmpty.
SeedStepOf(c) == seedPc'[c] # seedPc[c]

\* C29: after any number of calls of seedCategoriesIfEmpty, one after the
\* other or interleaved, the transfer category exists and no default id was
\* inserted while a row of that id was there; a call on a table that holds
\* transfer (and so is not empty) writes nothing and returns without error.
C29_SeedIdempotent ==
    /\ []((\E c \in SeedCallers : SeedOver(c)) => "transfer" \in categories)
    /\ [][/\ \A c \in SeedCallers :
               /\ (seedPc[c] = "insertAll" /\ seedPc'[c] = "returned") =>
                     /\ categories \cap DEFAULT_CATEGORIES = {}
                     /\ categories' = categories \cup DEFAULT_CATEGORIES
               /\ (seedPc[c] = "insertTransfer" /\ seedPc'[c] = "returned") =>
                     /\ "transfer" \notin categories
                     /\ categories' = categories \cup {"transfer"}
               /\ (SeedStepOf(c) /\ seedPc'[c] = "thrown") => categories' = categories
               /\ (seedPc[c] \notin {"insertAll", "insertTransfer"} /\ SeedStepOf(c)
                   /\ "transfer" \in categories) =>
                     /\ seedPc'[c] = (IF seedPc[c] = "selectTransfer" THEN "returned"
                                      ELSE "selectTransfer")
                     /\ categories' = categories
          /\ "transfer" \in categories => "transfer" \in categories']_vars

\* Two calls interleaved on an empty table: both found it empty, one
\* inserted the defaults and the other was refused by the primary key.
C29_Witness ==
    /\ seedPc[1] = "returned"
    /\ seedPc[2] = "thrown"
    /\ seedCalls = 2
    /\ created = 0
    /\ categories = DEFAULT_CATEGORIES

(***************************************************************************)
(* Claims on the stream converter                                          *)
(***************************************************************************)
\* The chunk is already in AG-UI form.
InAGUIForm(chunk) ==
    "type" \in DOMAIN chunk /\ chunk.type \in
        {"RUN_STARTED", "RUN_FINISHED", "RUN_ERROR", "TEXT_MESSAGE_START",
         "TEXT_MESSAGE_CONTENT", "TEXT_MESSAGE_END", "TOOL_CALL_START", "TOOL_CALL_ARGS",
         "TOOL_CALL_END", "STEP_STARTED", "STEP_FINISHED", "STATE_SNAPSHOT",
         "STATE_DELTA", "CUSTOM"}

TypeOf(chunk) == IF "type" \in DOMAIN chunk THEN chunk.type ELSE "undefined"

\* How many events a chunk is to yield.
EventsDue(chunk) ==
    IF InAGUIForm(chunk) THEN 1
    ELSE IF TypeOf(chunk) = "tool_call" THEN 3
    ELSE IF TypeOf(chunk) \in {"content", "done", "thinking", "error"} THEN 1
    ELSE 0

\* The events are those the chunk is to yield.
YieldsOf(chunk, events) ==
    /\ Len(events) = EventsDue(chunk)
    /\ \A i \in DOMAIN events : events[i].timestamp = chunk.timestamp
    /\ InAGUIForm(chunk) => events = <<chunk>>
    /\ (~InAGUIForm(chunk) /\ TypeOf(chunk) = "tool_call") =>
          /\ <<events[1].type, events[2].type, events[3].type>> =
                <<"TOOL_CALL_START", "TOOL_CALL_ARGS", "TOOL_CALL_END">>
          /\ events[1].toolCallId = events[2].toolCallId
          /\ events[2].toolCallId = events[3].toolCallId
          /\ "toolCall" \in DOMAIN chunk => events[1].toolCallId = chunk.toolCall.id

\* The events are, chunk after chunk, what the chunks are to yield.
RECURSIVE InChunkOrder(_, _)
InChunkOrder(chunks, events) ==
    IF chunks = <<>> THEN events = <<>>
    ELSE /\ Len(events) >= EventsDue(Head(chunks))
         /\ YieldsOf(Head(chunks), SubSeq(events, 1, EventsDue(Head(chunks))))
         /\ InChunkOrder(Tail(chunks),
                         SubSeq(events, EventsDue(Head(chunks)) + 1, Len(events)))

\* C30: whenever the converter stands between two chunks, the events it has
\* yielded are those of the chunks it has taken, in the order of the chunks:
\* a chunk in AG-UI form as it came, three events TOOL_CALL_START,
\* TOOL_CALL_ARGS, TOOL_CALL_END of one toolCallId for a tool_call chunk,
\* one event for a content, done, thinking or error chunk and none for any
\* other; and when it is done it has taken every chunk.
C30_StreamInOrder ==
    /\ (streamPc = "running" /\ streamPending = <<>>) =>
          InChunkOrder(SubSeq(stream, 1, streamI), streamOut)
    /\ streamPc = "done" => InChunkOrder(stream, streamOut)

\* A tool_call chunk and then a chunk in AG-UI form, converted to the end.
C30_Witness ==
    /\ streamPc = "done"
    /\ Len(stream) = 2
    /\ TypeOf(stream[1]) = "tool_call"
    /\ InAGUIForm(stream[2])
    /\ Len(streamOut) = 4
    /\ streamOut[4] = stream[2]

====
